---------------------------- MODULE Spec2Model ----------------------------
(***************************************************************************)
(* Form preview runtime of the form builder (FormPreview.tsx): the         *)
(* condition evaluator, the step validator, the navigation resolver and    *)
(* the step runtime with its timers (fade-out / fade-in, auto-advance,     *)
(* auto-navigation, simulated submission).                                 *)
(*                                                                         *)
(* JavaScript values are tagged records, strings that the code inspects    *)
(* (answers, compare values) are sequences of one-character strings, and   *)
(* identifiers that the code only compares (step ids, question ids,        *)
(* operators, error messages) are TLA+ strings.                            *)
(***************************************************************************)
EXTENDS Integers, Sequences, FiniteSets, TLC

(***************************************************************************)
(* JavaScript values                                                       *)
(***************************************************************************)
JsVal(t, s, n, b, a) == [t |-> t, s |-> s, n |-> n, b |-> b, a |-> a]

Undefined == JsVal("undefined", <<>>, 0, FALSE, <<>>)
Null      == JsVal("null", <<>>, 0, FALSE, <<>>)
NaN       == JsVal("nan", <<>>, 0, FALSE, <<>>)
Str(s)    == JsVal("string", s, 0, FALSE, <<>>)
Num(n)    == JsVal("number", <<>>, n, FALSE, <<>>)
Bool(b)   == JsVal("boolean", <<>>, 0, b, <<>>)
Arr(a)    == JsVal("array", <<>>, 0, FALSE, a)

EmptyStr == Str(<<>>)

\* JavaScript truthiness: undefined, null, NaN, '', 0 and false are falsy;
\* every array (also the empty one) is truthy.
Truthy(v) ==
    CASE v.t = "undefined" -> FALSE
      [] v.t = "null"      -> FALSE
      [] v.t = "nan"       -> FALSE
      [] v.t = "string"    -> v.s # <<>>
      [] v.t = "number"    -> v.n # 0
      [] v.t = "boolean"   -> v.b
      [] OTHER             -> TRUE

\* a || b
JsOr(a, b) == IF Truthy(a) THEN a ELSE b

\* a === b for the values of this model (arrays are compared by identity in
\* JavaScript; the code never compares two arrays with ===).
StrictEq(a, b) ==
    /\ a.t = b.t
    /\ a.t # "nan"
    /\ a.t # "array"
    /\ a = b

IsArray(v) == v.t = "array"

(***************************************************************************)
(* Strings: String(v), Number(v), includes, startsWith, endsWith           *)
(***************************************************************************)
Digits == <<"0", "1", "2", "3", "4", "5", "6", "7", "8", "9">>

IsDigit(c) == \E i \in 1..10 : Digits[i] = c

DigitVal(c) == (CHOOSE i \in 1..10 : Digits[i] = c) - 1

RECURSIVE NatToStr(_)
NatToStr(n) ==
    IF n < 10 THEN <<Digits[n + 1]>>
    ELSE NatToStr(n \div 10) \o <<Digits[(n % 10) + 1]>>

IntToStr(n) == IF n < 0 THEN <<"-">> \o NatToStr(-n) ELSE NatToStr(n)

RECURSIVE StrToNat(_)
StrToNat(s) ==
    IF s = <<>> THEN 0
    ELSE 10 * StrToNat(SubSeq(s, 1, Len(s) - 1)) + DigitVal(s[Len(s)])

AllDigits(s) == s # <<>> /\ \A i \in 1..Len(s) : IsDigit(s[i])

RECURSIVE Join(_)
\* Array.prototype.join(','), which is what String(array) produces.
Join(a) ==
    IF a = <<>> THEN <<>>
    ELSE IF Len(a) = 1 THEN a[1]
    ELSE a[1] \o <<",">> \o Join(Tail(a))

\* String(v)
ToStr(v) ==
    CASE v.t = "string"    -> v.s
      [] v.t = "number"    -> IntToStr(v.n)
      [] v.t = "boolean"   -> IF v.b THEN <<"t", "r", "u", "e">>
                                     ELSE <<"f", "a", "l", "s", "e">>
      [] v.t = "array"     -> Join(v.a)
      [] v.t = "nan"       -> <<"N", "a", "N">>
      [] v.t = "null"      -> <<"n", "u", "l", "l">>
      [] OTHER             -> <<"u", "n", "d", "e", "f", "i", "n", "e", "d">>

\* Number(s) for a string of this model's alphabet (letters, digits, '-', ','
\* and no white space, '.', 'e' or 'x'): '' is 0, an optionally signed run of
\* digits is that integer, anything else is NaN.
StrToNum(s) ==
    IF s = <<>> THEN Num(0)
    ELSE IF AllDigits(s) THEN Num(StrToNat(s))
    ELSE IF s[1] = "-" /\ AllDigits(Tail(s)) THEN Num(-StrToNat(Tail(s)))
    ELSE NaN

\* Number(v)
ToNum(v) ==
    CASE v.t = "number"    -> v
      [] v.t = "string"    -> StrToNum(v.s)
      [] v.t = "boolean"   -> IF v.b THEN Num(1) ELSE Num(0)
      [] v.t = "null"      -> Num(0)
      [] v.t = "array"     -> StrToNum(Join(v.a))
      [] OTHER             -> NaN

\* a > b and a < b on numbers: every comparison with NaN is false.
NumGt(a, b) == a.t = "number" /\ b.t = "number" /\ a.n > b.n
NumLt(a, b) == a.t = "number" /\ b.t = "number" /\ a.n < b.n

\* s.includes(sub)
Includes(s, sub) ==
    \E i \in 0..(Len(s) - Len(sub)) : SubSeq(s, i + 1, i + Len(sub)) = sub

\* s.startsWith(sub), s.endsWith(sub)
StartsWith(s, sub) == Len(sub) <= Len(s) /\ SubSeq(s, 1, Len(sub)) = sub
EndsWith(s, sub) ==
    Len(sub) <= Len(s) /\ SubSeq(s, Len(s) - Len(sub) + 1, Len(s)) = sub

\* array.includes(x) for an array of strings and a string x
ArrIncludes(a, x) == \E i \in 1..Len(a) : a[i] = x

(***************************************************************************)
(* Condition evaluator                                                     *)
(***************************************************************************)
\* formData[key]: the Answer Map is a function on the form's keys in which an
\* absent entry reads undefined; a key outside the form reads undefined too.
Lookup(data, key) == IF key \in DOMAIN data THEN data[key] ELSE Undefined

\* const value = formData[rule.questionId] || '';
RuleValue(data, rule) == JsOr(Lookup(data, rule.questionId), EmptyStr)

\* case 'is_empty'
IsEmptyOp(value) ==
    IF IsArray(value) THEN Bool(Len(value.a) = 0)
    ELSE Bool(~Truthy(value) \/ StrictEq(value, EmptyStr))

\* case 'is_not_empty': value && value !== '' yields value itself when it is
\* falsy, and the boolean otherwise.
\* (IsNotEmptyBad: the array test written as length >= 0.)
IsNotEmptyBad(value) ==
    IF IsArray(value) THEN Bool(Len(value.a) >= 0)
    ELSE IF Truthy(value) THEN Bool(~StrictEq(value, EmptyStr)) ELSE value

IsNotEmptyOp(value) ==
    IF IsArray(value) THEN Bool(Len(value.a) > 0)
    ELSE IF Truthy(value) THEN Bool(~StrictEq(value, EmptyStr)) ELSE value

\* (switchOperatorSomeNot: not_contains on an array true when some element
\* does not contain compareValue.)
switchOperatorSomeNot(value, rule) ==
    LET compareValue == rule.value
        op           == rule.operator
    IN CASE op = "equals" ->
              IF IsArray(value) THEN Bool(ArrIncludes(value.a, compareValue))
              ELSE Bool(StrictEq(value, Str(compareValue)))
         [] op = "not_equals" ->
              IF IsArray(value) THEN Bool(~ArrIncludes(value.a, compareValue))
              ELSE Bool(~StrictEq(value, Str(compareValue)))
         [] op = "contains" ->
              IF IsArray(value)
              THEN Bool(\E i \in 1..Len(value.a) : Includes(value.a[i], compareValue))
              ELSE Bool(Includes(ToStr(value), compareValue))
         [] op = "not_contains" ->
              IF IsArray(value)
              THEN Bool(\E i \in 1..Len(value.a) : ~Includes(value.a[i], compareValue))
              ELSE Bool(~Includes(ToStr(value), compareValue))
         [] op = "is_empty" -> IsEmptyOp(value)
         [] op = "is_not_empty" -> IsNotEmptyOp(value)
         [] op = "greater_than" ->
              Bool(NumGt(ToNum(value), ToNum(Str(compareValue))))
         [] op = "less_than" ->
              Bool(NumLt(ToNum(value), ToNum(Str(compareValue))))
         [] op = "starts_with" ->
              IF IsArray(value)
              THEN Bool(\E i \in 1..Len(value.a) : StartsWith(value.a[i], compareValue))
              ELSE Bool(StartsWith(ToStr(value), compareValue))
         [] op = "ends_with" ->
              IF IsArray(value)
              THEN Bool(\E i \in 1..Len(value.a) : EndsWith(value.a[i], compareValue))
              ELSE Bool(EndsWith(ToStr(value), compareValue))
         [] OTHER -> Bool(TRUE)

\* switch (rule.operator) on the value of the rule. The result is the
\* JavaScript value the switch returns; its callers use its truthiness.
switchOperator(value, rule) ==
    LET compareValue == rule.value
        op           == rule.operator
    IN CASE op = "equals" ->
              IF IsArray(value) THEN Bool(ArrIncludes(value.a, compareValue))
              ELSE Bool(StrictEq(value, Str(compareValue)))
         [] op = "not_equals" ->
              IF IsArray(value) THEN Bool(~ArrIncludes(value.a, compareValue))
              ELSE Bool(~StrictEq(value, Str(compareValue)))
         [] op = "contains" ->
              IF IsArray(value)
              THEN Bool(\E i \in 1..Len(value.a) : Includes(value.a[i], compareValue))
              ELSE Bool(Includes(ToStr(value), compareValue))
         [] op = "not_contains" ->
              IF IsArray(value)
              THEN Bool(~\E i \in 1..Len(value.a) : Includes(value.a[i], compareValue))
              ELSE Bool(~Includes(ToStr(value), compareValue))
         [] op = "is_empty" -> IsEmptyOp(value)
         [] op = "is_not_empty" -> IsNotEmptyOp(value)
         [] op = "greater_than" ->
              Bool(NumGt(ToNum(value), ToNum(Str(compareValue))))
         [] op = "less_than" ->
              Bool(NumLt(ToNum(value), ToNum(Str(compareValue))))
         [] op = "starts_with" ->
              IF IsArray(value)
              THEN Bool(\E i \in 1..Len(value.a) : StartsWith(value.a[i], compareValue))
              ELSE Bool(StartsWith(ToStr(value), compareValue))
         [] op = "ends_with" ->
              IF IsArray(value)
              THEN Bool(\E i \in 1..Len(value.a) : EndsWith(value.a[i], compareValue))
              ELSE Bool(EndsWith(ToStr(value), compareValue))
         [] OTHER -> Bool(TRUE)

evaluateRule(data, rule) == switchOperator(RuleValue(data, rule), rule)

\* condition.rules.map((rule) => evaluateRule(rule))
RuleResults(data, condition) ==
    [i \in 1..Len(condition.rules) |-> evaluateRule(data, condition.rules[i])]

RECURSIVE Every(_)
\* results.every((r) => r): stops at the first falsy element
Every(results) ==
    IF results = <<>> THEN TRUE
    ELSE IF ~Truthy(Head(results)) THEN FALSE
    ELSE Every(Tail(results))

RECURSIVE Some(_)
\* results.some((r) => r): stops at the first truthy element
Some(results) ==
    IF results = <<>> THEN FALSE
    ELSE IF Truthy(Head(results)) THEN TRUE
    ELSE Some(Tail(results))

\* (evaluateConditionSwapped: every and some exchanged.)
evaluateConditionSwapped(data, condition) ==
    LET results == RuleResults(data, condition)
    IN IF condition.logic = "AND" THEN Some(results) ELSE Every(results)

evaluateCondition(data, condition) ==
    LET results == RuleResults(data, condition)
    IN IF condition.logic = "AND" THEN Every(results) ELSE Some(results)

(***************************************************************************)
(* Validator                                                               *)
(***************************************************************************)
\* A JavaScript object used as a map (formData, errors, newErrors).
EmptyObj == [k \in {} |-> Undefined]

ObjSet(obj, key, v) == [k \in (DOMAIN obj) \cup {key} |-> IF k = key THEN v ELSE obj[k]]

ObjDelete(obj, key) == [k \in (DOMAIN obj) \ {key} |-> obj[k]]

\* An error message; arg is the number a template literal interpolates.
Msg(text, arg) == [msg |-> text, arg |-> arg]

\* question.conditionalDisplay when the question has none
NoCondition == [logic |-> "none", rules |-> <<>>]

shouldShowQuestion(data, question) ==
    IF question.conditionalDisplay = NoCondition THEN TRUE
    ELSE evaluateCondition(data, question.conditionalDisplay)

IsSpace(c) == c = " "

LowerCase == <<"a", "b", "c", "d", "e", "f", "g", "h", "i", "j", "k", "l", "m",
               "n", "o", "p", "q", "r", "s", "t", "u", "v", "w", "x", "y", "z">>
UpperCase == <<"A", "B", "C", "D", "E", "F", "G", "H", "I", "J", "K", "L", "M",
               "N", "O", "P", "Q", "R", "S", "T", "U", "V", "W", "X", "Y", "Z">>

IsUpper(c) == \E i \in 1..26 : UpperCase[i] = c

\* s.toUpperCase()
ToUpper(s) ==
    [i \in 1..Len(s) |->
        IF \E j \in 1..26 : LowerCase[j] = s[i]
        THEN UpperCase[CHOOSE j \in 1..26 : LowerCase[j] = s[i]]
        ELSE s[i]]

RECURSIVE StripSpace(_)
\* s.replace(/\s/g, '')
StripSpace(s) ==
    IF s = <<>> THEN <<>>
    ELSE IF IsSpace(Head(s)) THEN StripSpace(Tail(s))
    ELSE <<Head(s)>> \o StripSpace(Tail(s))

\* s.substring(from, to) with 0-based from and exclusive to
Substring(s, from, to) ==
    LET f == IF from > Len(s) THEN Len(s) ELSE from
        t == IF to > Len(s) THEN Len(s) ELSE to
    IN SubSeq(s, f + 1, t)

RECURSIVE Split(_, _)
\* s.split(sep) for a one-character separator
Split(s, sep) ==
    IF \E i \in 1..Len(s) : s[i] = sep
    THEN LET p == CHOOSE i \in 1..Len(s) :
                      s[i] = sep /\ \A j \in 1..(i - 1) : s[j] # sep
         IN <<SubSeq(s, 1, p - 1)>> \o Split(SubSeq(s, p + 1, Len(s)), sep)
    ELSE <<s>>

RECURSIVE LeadingDigits(_)
LeadingDigits(s) ==
    IF s = <<>> \/ ~IsDigit(Head(s)) THEN <<>>
    ELSE <<Head(s)>> \o LeadingDigits(Tail(s))

RECURSIVE SkipSpace(_)
SkipSpace(s) == IF s # <<>> /\ IsSpace(Head(s)) THEN SkipSpace(Tail(s)) ELSE s

\* parseInt(s, 10): leading white space, an optional sign, then the leading
\* digits; NaN when there is no digit.
ParseInt(s) ==
    LET t    == SkipSpace(s)
        neg  == t # <<>> /\ Head(t) = "-"
        body == IF t # <<>> /\ Head(t) \in {"-", "+"} THEN Tail(t) ELSE t
        ds   == LeadingDigits(body)
    IN IF ds = <<>> THEN NaN
       ELSE Num(IF neg THEN -StrToNat(ds) ELSE StrToNat(ds))

\* parseInt(parts[i], 10) where parts[i] may be undefined
ParseIntAt(parts, i) == IF i <= Len(parts) THEN ParseInt(parts[i]) ELSE NaN

\* /^[^\s@]+@[^\s@]+\.[^\s@]+$/
emailRegex(s) ==
    /\ \A i \in 1..Len(s) : ~IsSpace(s[i])
    /\ Cardinality({i \in 1..Len(s) : s[i] = "@"}) = 1
    /\ \E p \in 2..Len(s) :
          /\ s[p] = "@"
          /\ \E q \in (p + 2)..(Len(s) - 1) : s[q] = "."

\* /^[\d\s\-+()]{7,}$/
phoneRegex(s) ==
    /\ Len(s) >= 7
    /\ \A i \in 1..Len(s) :
          IsDigit(s[i]) \/ IsSpace(s[i]) \/ s[i] \in {"-", "+", "(", ")"}

\* /^\d{2,3}-[A-Z]{1,2}-\d{1,6}$/
numberPlateRegex(s) ==
    LET parts == Split(s, "-")
    IN /\ Len(parts) = 3
       /\ Len(parts[1]) \in 2..3 /\ \A i \in 1..Len(parts[1]) : IsDigit(parts[1][i])
       /\ Len(parts[2]) \in 1..2 /\ \A i \in 1..Len(parts[2]) : IsUpper(parts[2][i])
       /\ Len(parts[3]) \in 1..6 /\ \A i \in 1..Len(parts[3]) : IsDigit(parts[3][i])

validEircodePrefixes ==
    {
      <<"A", "4", "1">>, <<"A", "4", "2">>, <<"A", "4", "5">>, <<"A", "6", "3">>,
      <<"A", "6", "7">>, <<"A", "7", "5">>, <<"A", "8", "1">>, <<"A", "8", "2">>,
      <<"A", "8", "3">>, <<"A", "8", "4">>, <<"A", "8", "5">>, <<"A", "8", "6">>,
      <<"A", "9", "1">>, <<"A", "9", "2">>, <<"A", "9", "4">>, <<"A", "9", "6">>,
      <<"A", "9", "8">>, <<"C", "1", "5">>, <<"D", "0", "1">>, <<"D", "0", "2">>,
      <<"D", "0", "3">>, <<"D", "0", "4">>, <<"D", "0", "5">>, <<"D", "0", "6">>,
      <<"D", "6", "W">>, <<"D", "0", "7">>, <<"D", "0", "8">>, <<"D", "0", "9">>,
      <<"D", "1", "0">>, <<"D", "1", "1">>, <<"D", "1", "2">>, <<"D", "1", "3">>,
      <<"D", "1", "4">>, <<"D", "1", "5">>, <<"D", "1", "6">>, <<"D", "1", "7">>,
      <<"D", "1", "8">>, <<"D", "2", "0">>, <<"D", "2", "2">>, <<"D", "2", "4">>,
      <<"E", "2", "1">>, <<"E", "2", "5">>, <<"E", "3", "2">>, <<"E", "3", "4">>,
      <<"E", "4", "1">>, <<"E", "4", "5">>, <<"E", "5", "3">>, <<"E", "9", "1">>,
      <<"F", "1", "2">>, <<"F", "2", "3">>, <<"F", "2", "6">>, <<"F", "2", "8">>,
      <<"F", "3", "1">>, <<"F", "3", "5">>, <<"F", "4", "2">>, <<"F", "4", "5">>,
      <<"F", "5", "2">>, <<"F", "5", "6">>, <<"F", "9", "1">>, <<"F", "9", "2">>,
      <<"F", "9", "3">>, <<"F", "9", "4">>, <<"H", "1", "2">>, <<"H", "1", "4">>,
      <<"H", "1", "6">>, <<"H", "1", "8">>, <<"H", "2", "3">>, <<"H", "5", "3">>,
      <<"H", "5", "4">>, <<"H", "6", "2">>, <<"H", "6", "5">>, <<"H", "7", "1">>,
      <<"H", "9", "1">>, <<"K", "3", "2">>, <<"K", "3", "4">>, <<"K", "3", "6">>,
      <<"K", "4", "5">>, <<"K", "5", "6">>, <<"K", "6", "7">>, <<"K", "7", "8">>,
      <<"N", "3", "7">>, <<"N", "3", "9">>, <<"N", "4", "1">>, <<"N", "9", "1">>,
      <<"P", "1", "2">>, <<"P", "1", "4">>, <<"P", "1", "7">>, <<"P", "2", "4">>,
      <<"P", "2", "5">>, <<"P", "3", "1">>, <<"P", "3", "2">>, <<"P", "3", "6">>,
      <<"P", "4", "3">>, <<"P", "4", "7">>, <<"P", "5", "1">>, <<"P", "5", "6">>,
      <<"P", "6", "1">>, <<"P", "6", "7">>, <<"P", "7", "2">>, <<"P", "7", "5">>,
      <<"P", "8", "1">>, <<"P", "8", "5">>, <<"R", "1", "4">>, <<"R", "2", "1">>,
      <<"R", "3", "2">>, <<"R", "3", "5">>, <<"R", "4", "2">>, <<"R", "4", "5">>,
      <<"R", "5", "1">>, <<"R", "5", "6">>, <<"R", "9", "3">>, <<"R", "9", "5">>,
      <<"T", "1", "2">>, <<"T", "2", "3">>, <<"T", "3", "4">>, <<"T", "4", "5">>,
      <<"T", "5", "6">>, <<"V", "1", "4">>, <<"V", "1", "5">>, <<"V", "2", "3">>,
      <<"V", "3", "1">>, <<"V", "3", "5">>, <<"V", "4", "2">>, <<"V", "9", "2">>,
      <<"V", "9", "3">>, <<"V", "9", "4">>, <<"V", "9", "5">>, <<"W", "1", "2">>,
      <<"W", "2", "3">>, <<"W", "3", "4">>, <<"W", "9", "1">>, <<"X", "3", "5">>,
      <<"X", "4", "2">>, <<"X", "9", "1">>, <<"Y", "1", "4">>, <<"Y", "2", "1">>,
      <<"Y", "2", "5">>, <<"Y", "3", "4">>, <<"Y", "3", "5">>
    }

\* new Date(year, month, 0).getDate(): the number of days of month 1..12
DaysInMonth(year, month) ==
    IF month \in {4, 6, 9, 11} THEN 30
    ELSE IF month # 2 THEN 31
    ELSE IF (year % 4 = 0 /\ year % 100 # 0) \/ year % 400 = 0 THEN 29
    ELSE 28

\* new RegExp(validation.pattern).test(s) for the patterns the forms of this
\* model use; '' stands for no pattern.
PatternTest(pattern, s) ==
    CASE pattern = "^[0-9]+$" -> AllDigits(s)
      [] pattern = "^y"       -> s # <<>> /\ s[1] = "y"
      [] OTHER                -> TRUE

IsNaN(v) == v.t = "nan"

\* isNaN(day) || isNaN(month) || isNaN(year) || day < 1 || day > 31 || ...
BadDate(day, month, year) ==
    \/ IsNaN(day) \/ IsNaN(month) \/ IsNaN(year)
    \/ day.n < 1 \/ day.n > 31 \/ month.n < 1 \/ month.n > 12
    \/ year.n < 1900 \/ year.n > 2100

\* isNaN(hours) || isNaN(minutes) || hours < 0 || hours > 23 || ...
BadTime(hours, minutes) ==
    \/ IsNaN(hours) \/ IsNaN(minutes)
    \/ hours.n < 0 \/ hours.n > 23 \/ minutes.n < 0 \/ minutes.n > 59

BadParts(parts) ==
    \/ Len(parts) # 3
    \/ Len(parts[1]) # 2 \/ Len(parts[2]) # 2 \/ Len(parts[3]) # 4

\* The required check of validateStep: TRUE when the answer counts as missing.
RequiredMissing(value) ==
    \/ IsArray(value) /\ Len(value.a) = 0
    \/ ~IsArray(value) /\ (~Truthy(value) \/ StrictEq(value, EmptyStr))

\* The checks that run when the answer is truthy: each failing check
\* overwrites the one slot of the field.
dateMaskCheck(dateVal, errs, key) ==
    IF Len(dateVal) # 10
    THEN ObjSet(errs, key, Msg("Please enter a complete date (DD/MM/YYYY)", 0))
    ELSE LET parts == Split(dateVal, "/")
         IN IF BadParts(parts)
            THEN ObjSet(errs, key, Msg("Please enter date in DD/MM/YYYY format", 0))
            ELSE LET day   == ParseInt(parts[1])
                     month == ParseInt(parts[2])
                     year  == ParseInt(parts[3])
                 IN IF BadDate(day, month, year)
                    THEN ObjSet(errs, key, Msg("Please enter a valid date (DD/MM/YYYY)", 0))
                    ELSE IF day.n > DaysInMonth(year.n, month.n)
                    THEN ObjSet(errs, key, Msg("Invalid day for this month (max ${daysInMonth})",
                                               DaysInMonth(year.n, month.n)))
                    ELSE errs

datetimeMaskCheck(dateVal, errs, key) ==
    IF Len(dateVal) # 16
    THEN ObjSet(errs, key, Msg("Please enter a complete date and time (DD/MM/YYYY HH:MM)", 0))
    ELSE LET datePart  == Substring(dateVal, 0, 10)
             timePart  == Substring(dateVal, 11, Len(dateVal))
             parts     == Split(datePart, "/")
         IN IF BadParts(parts)
            THEN ObjSet(errs, key, Msg("Please enter date in DD/MM/YYYY format", 0))
            ELSE LET day       == ParseInt(parts[1])
                     month     == ParseInt(parts[2])
                     year      == ParseInt(parts[3])
                     timeParts == Split(timePart, ":")
                     hours     == ParseIntAt(timeParts, 1)
                     minutes   == ParseIntAt(timeParts, 2)
                 IN IF BadDate(day, month, year)
                    THEN ObjSet(errs, key, Msg("Please enter a valid date (DD/MM/YYYY)", 0))
                    ELSE IF BadTime(hours, minutes)
                    THEN ObjSet(errs, key, Msg("Please enter a valid time (00:00 - 23:59)", 0))
                    ELSE IF day.n > DaysInMonth(year.n, month.n)
                    THEN ObjSet(errs, key, Msg("Invalid day for this month (max ${daysInMonth})",
                                               DaysInMonth(year.n, month.n)))
                    ELSE errs

typeChecks(question, value, errs, key) ==
    LET s  == ToStr(value)
        e1 == IF question.type = "email" /\ ~emailRegex(s)
              THEN ObjSet(errs, key, Msg("Please enter a valid email address", 0))
              ELSE errs
        e2 == IF question.type = "phone" /\ ~phoneRegex(s)
              THEN ObjSet(e1, key, Msg("Please enter a valid phone number", 0))
              ELSE e1
        eircodeVal == ToUpper(StripSpace(s))
        e3 == IF /\ question.type = "eircode"
                 /\ (Len(eircodeVal) < 7
                        \/ Substring(eircodeVal, 0, 3) \notin validEircodePrefixes)
              THEN ObjSet(e2, key, Msg("Please enter a valid Eircode (e.g. D02 X285)", 0))
              ELSE e2
        e4 == IF question.type = "numberplate" /\ ~numberPlateRegex(ToUpper(s))
              THEN ObjSet(e3, key, Msg("Please enter a valid number plate (e.g. 191-D-12345)", 0))
              ELSE e3
        e5 == IF question.type = "date" /\ question.useDateInputMask
              THEN dateMaskCheck(s, e4, key)
              ELSE e4
    IN IF question.type = "datetime" /\ question.useDateInputMask
       THEN datetimeMaskCheck(s, e5, key)
       ELSE e5

\* (genericChecksFirstWins: a failing check that leaves an earlier message
\* of the field in place.)
genericChecksFirstWins(validation, value, errs, key) ==
    LET s  == ToStr(value)
        n  == ToNum(value)
        e1 == IF validation.minLength # 0 /\ Len(s) < validation.minLength
                 /\ key \notin DOMAIN errs
              THEN ObjSet(errs, key, Msg("Minimum ${minLength} characters required",
                                         validation.minLength))
              ELSE errs
        e2 == IF validation.maxLength # 0 /\ Len(s) > validation.maxLength
                 /\ key \notin DOMAIN e1
              THEN ObjSet(e1, key, Msg("Maximum ${maxLength} characters allowed",
                                       validation.maxLength))
              ELSE e1
        e3 == IF validation.hasMin /\ NumLt(n, Num(validation.min))
                 /\ key \notin DOMAIN e2
              THEN ObjSet(e2, key, Msg("Minimum value is ${min}", validation.min))
              ELSE e2
        e4 == IF validation.hasMax /\ NumGt(n, Num(validation.max))
                 /\ key \notin DOMAIN e3
              THEN ObjSet(e3, key, Msg("Maximum value is ${max}", validation.max))
              ELSE e3
    IN IF validation.pattern # "" /\ ~PatternTest(validation.pattern, s)
          /\ key \notin DOMAIN e4
       THEN ObjSet(e4, key, Msg(IF validation.patternMessage # ""
                                THEN validation.patternMessage
                                ELSE "Invalid format", 0))
       ELSE e4

genericChecks(validation, value, errs, key) ==
    LET s  == ToStr(value)
        n  == ToNum(value)
        e1 == IF validation.minLength # 0 /\ Len(s) < validation.minLength
              THEN ObjSet(errs, key, Msg("Minimum ${minLength} characters required",
                                         validation.minLength))
              ELSE errs
        e2 == IF validation.maxLength # 0 /\ Len(s) > validation.maxLength
              THEN ObjSet(e1, key, Msg("Maximum ${maxLength} characters allowed",
                                       validation.maxLength))
              ELSE e1
        e3 == IF validation.hasMin /\ NumLt(n, Num(validation.min))
              THEN ObjSet(e2, key, Msg("Minimum value is ${min}", validation.min))
              ELSE e2
        e4 == IF validation.hasMax /\ NumGt(n, Num(validation.max))
              THEN ObjSet(e3, key, Msg("Maximum value is ${max}", validation.max))
              ELSE e3
    IN IF validation.pattern # "" /\ ~PatternTest(validation.pattern, s)
       THEN ObjSet(e4, key, Msg(IF validation.patternMessage # ""
                                THEN validation.patternMessage
                                ELSE "Invalid format", 0))
       ELSE e4

\* const key = question.fieldName || question.id;
QuestionKey(question) ==
    IF question.fieldName # "" THEN question.fieldName ELSE question.id

\* (validateQuestionNoSkip: an iteration that skips no question.)
validateQuestionNoSkip(data, question, newErrors) ==
    LET key   == QuestionKey(question)
        value == Lookup(data, key)
    IN IF question.validation.required /\ RequiredMissing(value)
       THEN ObjSet(newErrors, key, Msg("This field is required", 0))
       ELSE IF Truthy(value)
       THEN genericChecks(question.validation, value,
                          typeChecks(question, value, newErrors, key), key)
       ELSE newErrors

\* One iteration of currentStep.questions.forEach in validateStep.
validateQuestion(data, question, newErrors) ==
    LET key   == QuestionKey(question)
        value == Lookup(data, key)
    IN IF ~shouldShowQuestion(data, question) THEN newErrors
       ELSE IF question.type \in {"hidden", "helper_text"} THEN newErrors
       ELSE IF question.validation.required /\ RequiredMissing(value)
       THEN ObjSet(newErrors, key, Msg("This field is required", 0))
       ELSE IF Truthy(value)
       THEN genericChecks(question.validation, value,
                          typeChecks(question, value, newErrors, key), key)
       ELSE newErrors

RECURSIVE validateQuestions(_, _, _)
validateQuestions(data, questions, newErrors) ==
    IF questions = <<>> THEN newErrors
    ELSE validateQuestions(data, Tail(questions),
                           validateQuestion(data, Head(questions), newErrors))

\* The newErrors object validateStep builds and hands to setErrors; the step
\* is valid iff it has no key.
validateStep(data, step) == validateQuestions(data, step.questions, EmptyObj)

(***************************************************************************)
(* Navigation resolver                                                     *)
(***************************************************************************)
\* form.steps.length
NumSteps(f) == Len(f.steps)

\* const currentStep = form.steps[currentStepIndex] || form.steps[0];
\* (currentStepIndex is 0-based as in the source, sequences are 1-based)
CurrentStep(f, idx) ==
    IF idx \in 0..(NumSteps(f) - 1) THEN f.steps[idx + 1] ELSE f.steps[1]

\* form.steps.findIndex((s) => s.id === id): the first match, or -1
findIndex(f, id) ==
    IF \E i \in 1..NumSteps(f) : f.steps[i].id = id
    THEN (CHOOSE i \in 1..NumSteps(f) :
             f.steps[i].id = id /\ \A j \in 1..(i - 1) : f.steps[j].id # id) - 1
    ELSE -1

\* Array.prototype.sort is stable: an element goes after every element that
\* does not have to come after it.
\* (InsertAscending: the comparator written as a.priority - b.priority.)
InsertAscending(sorted, nav) ==
    LET before == {i \in 1..Len(sorted) : sorted[i].priority <= nav.priority}
        k      == IF before = {} THEN 0
                  ELSE CHOOSE i \in before : \A j \in before : j <= i
    IN SubSeq(sorted, 1, k) \o <<nav>> \o SubSeq(sorted, k + 1, Len(sorted))

InsertByPriority(sorted, nav) ==
    LET before == {i \in 1..Len(sorted) : sorted[i].priority >= nav.priority}
        k      == IF before = {} THEN 0
                  ELSE CHOOSE i \in before : \A j \in before : j <= i
    IN SubSeq(sorted, 1, k) \o <<nav>> \o SubSeq(sorted, k + 1, Len(sorted))

RECURSIVE SortInto(_, _)
SortInto(sorted, navs) ==
    IF navs = <<>> THEN sorted
    ELSE SortInto(InsertByPriority(sorted, Head(navs)), Tail(navs))

\* [...currentStep.conditionalNavigation].sort((a, b) => b.priority - a.priority)
sortedNavigation(step) == SortInto(<<>>, step.conditionalNavigation)

\* The tail of getNextStepIndex: defaultNextStep when it resolves, else the
\* next index.
\* (defaultNavigationSameIndex: the fallback written without the + 1.)
defaultNavigationSameIndex(f, step, idx) ==
    IF step.defaultNextStep # "" /\ findIndex(f, step.defaultNextStep) # -1
    THEN findIndex(f, step.defaultNextStep)
    ELSE idx

defaultNavigation(f, step, idx) ==
    IF step.defaultNextStep # "" /\ findIndex(f, step.defaultNextStep) # -1
    THEN findIndex(f, step.defaultNextStep)
    ELSE idx + 1

RECURSIVE scanNavigationStopsAtMatch(_, _, _, _, _)
\* (scanNavigationStopsAtMatch: the loop left at the first true rule, resolved
\* or not.)
scanNavigationStopsAtMatch(f, data, step, idx, navs) ==
    IF navs = <<>> THEN defaultNavigation(f, step, idx)
    ELSE LET nav == Head(navs)
         IN IF ~evaluateCondition(data, nav.condition)
            THEN scanNavigationStopsAtMatch(f, data, step, idx, Tail(navs))
            ELSE IF nav.target.type = "submit" THEN -1
            ELSE IF /\ nav.target.type = "specific"
                    /\ nav.target.stepId # ""
                    /\ findIndex(f, nav.target.stepId) # -1
            THEN findIndex(f, nav.target.stepId)
            ELSE IF nav.target.type = "next" THEN idx + 1
            ELSE defaultNavigation(f, step, idx)

RECURSIVE scanNavigation(_, _, _, _, _)
\* The for loop of getNextStepIndex over the sorted rules: a true rule whose
\* target does not resolve lets the loop go on.
scanNavigation(f, data, step, idx, navs) ==
    IF navs = <<>> THEN defaultNavigation(f, step, idx)
    ELSE LET nav == Head(navs)
         IN IF ~evaluateCondition(data, nav.condition)
            THEN scanNavigation(f, data, step, idx, Tail(navs))
            ELSE IF nav.target.type = "submit" THEN -1
            ELSE IF /\ nav.target.type = "specific"
                    /\ nav.target.stepId # ""
                    /\ findIndex(f, nav.target.stepId) # -1
            THEN findIndex(f, nav.target.stepId)
            ELSE IF nav.target.type = "next" THEN idx + 1
            ELSE scanNavigation(f, data, step, idx, Tail(navs))

\* -1 stands for "submit the form", as in the source.
getNextStepIndex(f, data, idx) ==
    LET step == CurrentStep(f, idx)
    IN scanNavigation(f, data, step, idx, sortedNavigation(step))

\* currentStep.conditionalNavigation.some(nav => evaluateCondition(nav.condition))
conditionalNavMatched(data, step) ==
    \E i \in 1..Len(step.conditionalNavigation) :
        evaluateCondition(data, step.conditionalNavigation[i].condition)

(***************************************************************************)
(* Form documents                                                          *)
(***************************************************************************)
\* QuestionValidation; minLength / maxLength 0 and pattern '' stand for an
\* absent entry (the code tests them for truthiness), hasMin / hasMax for
\* min / max !== undefined.
Validation(required) ==
    [required |-> required, minLength |-> 0, maxLength |-> 0,
     hasMin |-> FALSE, min |-> 0, hasMax |-> FALSE, max |-> 0,
     pattern |-> "", patternMessage |-> ""]

\* Question; fieldName '' stands for an absent fieldName, options holds the
\* option values of a choice question.
Question(id, type, required) ==
    [id |-> id, type |-> type, fieldName |-> "", options |-> <<>>,
     validation |-> Validation(required),
     conditionalDisplay |-> NoCondition, useDateInputMask |-> FALSE]

Rule(questionId, operator, value) ==
    [questionId |-> questionId, operator |-> operator, value |-> value]

Condition(logic, rules) == [logic |-> logic, rules |-> rules]

Target(type, stepId) == [type |-> type, stepId |-> stepId]

Nav(priority, condition, target) ==
    [priority |-> priority, condition |-> condition, target |-> target]

\* Step; defaultNextStep / defaultPrevStep '' stand for an absent reference.
Step(id, questions, navs, validateOnContinue, autoAdvance) ==
    [id |-> id, questions |-> questions, conditionalNavigation |-> navs,
     defaultNextStep |-> "", defaultPrevStep |-> "",
     validateOnContinue |-> validateOnContinue, autoAdvance |-> autoAdvance,
     enterKeyAdvance |-> TRUE,
     backButton |-> [enabled |-> TRUE], continueButton |-> [enabled |-> TRUE]]

\* ProgressConfig; exponentialBase 0 stands for an absent entry (the code
\* reads it with || 2), stepWeights maps step ids to weights.
ProgressConfig(mode, stepWeights, exponentialBase) ==
    [mode |-> mode, stepWeights |-> stepWeights, exponentialBase |-> exponentialBase]

Form(steps) ==
    [steps |-> steps, progressConfig |-> ProgressConfig("linear", EmptyObj, 0)]

Yes == <<"y", "e", "s">>
No  == <<"n", "o">>

\* Three steps in list order, no conditional rule, no default reference.
\* Step s1 asks one required text question and auto-advances, s2 asks a
\* slider, s3 a required checkbox group.
SequentialForm ==
    Form(<<Step("s1", <<Question("q1", "text", TRUE)>>, <<>>, TRUE, TRUE),
           Step("s2", <<Question("q2", "slider", FALSE)>>, <<>>, FALSE, TRUE),
           Step("s3", <<Question("q3", "checkbox", TRUE)>>, <<>>, TRUE, FALSE)>>)

\* Conditional rules: on s1 the lower-priority rule comes first in the list;
\* on s2 the only rule is true while q2 is unanswered and names a step that
\* does not exist; s3 is the last step
\* and has a rule with target next and one with target submit.
ConditionalForm ==
    Form(<<Step("s1", <<[Question("q1", "select", TRUE) EXCEPT !.options = <<Yes, No>>]>>,
                <<Nav(5, Condition("AND", <<Rule("q1", "is_not_empty", <<>>)>>),
                      Target("next", "")),
                  Nav(10, Condition("AND", <<Rule("q1", "equals", Yes)>>),
                      Target("specific", "s3"))>>,
                TRUE, FALSE),
           [Step("s2", <<Question("q2", "text", TRUE)>>,
                 <<Nav(1, Condition("OR", <<Rule("q2", "is_empty", <<>>)>>),
                       Target("specific", "zz"))>>,
                 TRUE, FALSE) EXCEPT !.defaultPrevStep = "s1", !.enterKeyAdvance = FALSE],
           [Step("s3", <<[Question("q3", "radio", TRUE) EXCEPT !.options = <<Yes, No>>]>>,
                 <<Nav(2, Condition("AND", <<Rule("q3", "equals", Yes)>>),
                       Target("next", "")),
                   Nav(1, Condition("AND", <<Rule("q3", "equals", No)>>),
                       Target("submit", ""))>>,
                 TRUE, FALSE) EXCEPT !.defaultPrevStep = "s1"]>>)

\* Rules that are true while required questions are unanswered: on s1 the
\* rule is true while q1 is unanswered and names a step that does not exist;
\* on s2 the rule is true once q2 is yes, whatever the required q3 holds, and
\* submits.
OverrideForm ==
    Form(<<Step("s1", <<Question("q1", "text", TRUE)>>,
                <<Nav(1, Condition("OR", <<Rule("q1", "is_empty", <<>>)>>),
                      Target("specific", "zz"))>>,
                TRUE, FALSE),
           Step("s2", <<[Question("q2", "radio", FALSE) EXCEPT !.options = <<Yes, No>>],
                        Question("q3", "text", TRUE)>>,
                <<Nav(1, Condition("AND", <<Rule("q2", "equals", Yes)>>),
                      Target("submit", ""))>>,
                TRUE, FALSE)>>)

\* An auto-advancing first step whose rule depends on the answer given there:
\* no sends the user past s2.
AdvanceForm ==
    Form(<<Step("s1", <<[Question("q1", "radio", FALSE) EXCEPT !.options = <<Yes, No>>]>>,
                <<Nav(1, Condition("AND", <<Rule("q1", "equals", No)>>),
                      Target("specific", "s3"))>>,
                FALSE, TRUE),
           Step("s2", <<Question("q2", "text", FALSE)>>, <<>>, FALSE, FALSE),
           Step("s3", <<Question("q3", "text", FALSE)>>, <<>>, FALSE, FALSE)>>)

\* A form that is submitted by a rule, by Continue on its last step and by
\* auto-advance past its last step.
SubmitForm ==
    Form(<<Step("s1", <<Question("q1", "text", FALSE)>>,
                <<Nav(1, Condition("AND", <<Rule("q1", "equals", Yes)>>),
                      Target("submit", ""))>>,
                FALSE, FALSE),
           Step("s2", <<[Question("q2", "radio", FALSE) EXCEPT !.options = <<Yes>>]>>,
                <<>>, FALSE, TRUE)>>)

\* Back references: s2 names a step that does not exist, s3 names s1. The
\* required questions of s2 and s3 would fail validation while empty.
BackForm ==
    Form(<<Step("s1", <<Question("q1", "text", FALSE)>>, <<>>, FALSE, FALSE),
           [Step("s2", <<Question("q2", "text", TRUE)>>, <<>>, FALSE, FALSE)
               EXCEPT !.defaultPrevStep = "zz"],
           [Step("s3", <<Question("q3", "text", TRUE)>>, <<>>, TRUE, FALSE)
               EXCEPT !.defaultPrevStep = "s1"]>>)

\* Two required questions on one validated step, the first stored under its
\* fieldName.
FrameForm ==
    Form(<<Step("s1", <<[Question("q1", "text", TRUE) EXCEPT !.fieldName = "name"],
                        Question("q2", "text", TRUE)>>,
                <<>>, TRUE, FALSE),
           Step("s2", <<Question("q3", "text", FALSE)>>, <<>>, TRUE, FALSE)>>)

RuntimeForms == {SequentialForm, ConditionalForm}

\* The values a question's control hands to onChange.
InputValues(question) ==
    CASE question.type = "slider"   -> {Num(0), Num(5)}
      [] question.type = "rating"   -> {Num(1), Num(5)}
      [] question.type = "checkbox" -> {Arr(<<>>), Arr(<<<<"x">>>>)}
      [] question.type \in {"select", "radio"} ->
             {Str(question.options[i]) : i \in 1..Len(question.options)}
                 \cup (IF question.type = "select" THEN {EmptyStr} ELSE {})
      [] OTHER                      -> {EmptyStr, Str(Yes)}

\* What the question's control shows for the stored answer: the value prop
\* (the stored answer || ''), for a slider that || its minimum, for a
\* checkbox group the stored array or none checked.
Displayed(question, data) ==
    LET value == JsOr(Lookup(data, QuestionKey(question)), EmptyStr)
    IN CASE question.type = "slider"   -> JsOr(value, Num(0))
         [] question.type = "checkbox" -> IF IsArray(value) THEN value ELSE Arr(<<>>)
         [] OTHER                      -> value

\* Question types whose control passes onKeyDown on (every single-line input).
KeyDownTypes ==
    {"text", "email", "phone", "number", "currency", "select", "date",
     "datetime", "time", "eircode", "numberplate"}

(***************************************************************************)
(* Progress                                                                *)
(***************************************************************************)
\* A progress value: the quotient num / den, times 100. A zero den is the
\* division by zero of the code (NaN or an infinity).
Ratio(num, den) == [num |-> num, den |-> den]

RECURSIVE Pow(_, _)
\* Math.pow on integers.
Pow(b, e) == IF e = 0 THEN 1 ELSE b * Pow(b, e - 1)

\* case 'linear'
linearProgress(idx, totalSteps) == Ratio(idx + 1, totalSteps)

\* (stepBasedFromZero: the step number counted from 0.)
stepBasedFromZero(idx, totalSteps) == Ratio(idx, totalSteps)

\* case 'step_based'
stepBasedProgress(idx, totalSteps) == Ratio(idx + 1, totalSteps)

\* weights[s.id] || 1
Weight(weights, id) ==
    IF id \in DOMAIN weights /\ weights[id] # 0 THEN weights[id] ELSE 1

RECURSIVE SumWeights(_, _, _)
\* steps.slice(0, n).reduce((sum, s) => sum + (weights[s.id] || 1), 0)
SumWeights(weights, steps, n) ==
    IF n <= 0 \/ steps = <<>> THEN 0
    ELSE Weight(weights, Head(steps).id) + SumWeights(weights, Tail(steps), n - 1)

\* case 'weighted'
weightedProgress(weights, steps, idx) ==
    Ratio(SumWeights(weights, steps, idx + 1), SumWeights(weights, steps, Len(steps)))

\* (exponentialFromZero: the exponent written without the + 1.)
exponentialFromZero(exponentialBase, idx, totalSteps) ==
    LET base == IF exponentialBase # 0 THEN exponentialBase ELSE 2
    IN Ratio(Pow(base, idx) - 1, Pow(base, totalSteps) - 1)

\* case 'exponential'
exponentialProgress(exponentialBase, idx, totalSteps) ==
    LET base == IF exponentialBase # 0 THEN exponentialBase ELSE 2
    IN Ratio(Pow(base, idx + 1) - 1, Pow(base, totalSteps) - 1)

RECURSIVE CountQuestions(_)
\* steps.flatMap((s) => s.questions).length
CountQuestions(steps) ==
    IF steps = <<>> THEN 0 ELSE Len(Head(steps).questions) + CountQuestions(Tail(steps))

\* case 'question_based'
questionProgress(steps, data) ==
    LET totalQuestions    == CountQuestions(steps)
        answeredQuestions == Cardinality({key \in DOMAIN data : Truthy(data[key])})
    IN IF totalQuestions > 0 THEN Ratio(answeredQuestions, totalQuestions) ELSE Ratio(0, 1)

\* The progress memo.
progress(f, idx, data) ==
    LET config     == f.progressConfig
        totalSteps == Len(f.steps)
    IN IF totalSteps = 0 THEN Ratio(0, 1)
       ELSE CASE config.mode = "linear"      -> linearProgress(idx, totalSteps)
              [] config.mode = "step_based"  -> stepBasedProgress(idx, totalSteps)
              [] config.mode = "weighted"    ->
                     weightedProgress(config.stepWeights, f.steps, idx)
              [] config.mode = "exponential" ->
                     exponentialProgress(config.exponentialBase, idx, totalSteps)
              [] config.mode = "question_based" -> questionProgress(f.steps, data)
              [] OTHER                       -> Ratio(0, 1)

(***************************************************************************)
(* Step runtime                                                            *)
(***************************************************************************)
VARIABLES
    form,              \* the Form document (read only)
    currentStepIndex,  \* useState(0)
    formData,          \* useState({}): the Answer Map
    errors,            \* useState({}): the Error Map
    isSubmitting,      \* useState(false)
    submitted,         \* useState(false)
    isTransitioning,   \* useState(false)
    isNavigating,      \* useRef(false)
    pendingStepIndex,  \* useRef(null): {} is null, {n} is n
    timers,            \* the pending setTimeout callbacks, in scheduling order
    lastEvent,         \* history: the event handled last; a Continue that
                       \* returned at the isTransitioning guard is "...Ignored"
    sinceReset,        \* history: what was pending at the last Reset, "none"
                       \* once the user has acted again
    awaited,           \* history: where the rules of the step point after the
                       \* last answer change, until the runtime has gone
                       \* there or the user has acted otherwise
    ret                \* the last result of a directly called function

vars == <<form, currentStepIndex, formData, errors, isSubmitting, submitted,
          isTransitioning, isNavigating, pendingStepIndex, timers, lastEvent,
          sinceReset, awaited, ret>>

\* Delays of the setTimeout calls, in milliseconds.
FadeOutMs     == 150
FadeInMs      == 150
AutoNavMs     == 300
AutoAdvanceMs == 300
SubmitMs      == 1500

\* Time advances in steps of 150 ms.
Ticks(ms) == ms \div 150

\* The most callbacks pending at once when a user event schedules one more.
MaxTimers == 2

\* The largest step index the model lets a transition commit.
MaxIndex == 3

NoTarget == Target("none", "")

\* A pending callback with what its closure captured: the render's
\* currentStepIndex, formData and isTransitioning (idx, data, closureTransitioning),
\* the rule's target (autoNav) or the new index (fadeOut). committed is
\* history: the Answer Map handed to setFormData by the change that scheduled
\* an auto-advance.
Timer(kind, ms, newIndex, idx, data, target, stale) ==
    [kind |-> kind, ms |-> ms, rem |-> Ticks(ms), newIndex |-> newIndex,
     idx |-> idx, data |-> data, target |-> target, closureTransitioning |-> stale,
     committed |-> EmptyObj]

FadeOutTimer(newIndex) == Timer("fadeOut", FadeOutMs, newIndex, 0, EmptyObj, NoTarget, FALSE)
FadeInTimer            == Timer("fadeIn", FadeInMs, 0, 0, EmptyObj, NoTarget, FALSE)
SubmitTimer            == Timer("submit", SubmitMs, 0, 0, EmptyObj, NoTarget, FALSE)
AutoNavTimer(target, idx, stale) ==
    Timer("autoNav", AutoNavMs, 0, idx, EmptyObj, target, stale)
AutoAdvanceTimer(idx, data, stale, committed) ==
    [Timer("autoAdvance", AutoAdvanceMs, 0, idx, data, NoTarget, stale)
        EXCEPT !.committed = committed]

NoResult == [fn |-> "none", val |-> 0]

\* The runtime state as one record, for the handlers below.
State ==
    [currentStepIndex |-> currentStepIndex, formData |-> formData, errors |-> errors,
     isSubmitting |-> isSubmitting, submitted |-> submitted,
     isTransitioning |-> isTransitioning, isNavigating |-> isNavigating,
     pendingStepIndex |-> pendingStepIndex, timers |-> timers]

Commit(s) ==
    /\ currentStepIndex' = s.currentStepIndex
    /\ formData' = s.formData
    /\ errors' = s.errors
    /\ isSubmitting' = s.isSubmitting
    /\ submitted' = s.submitted
    /\ isTransitioning' = s.isTransitioning
    /\ isNavigating' = s.isNavigating
    /\ pendingStepIndex' = s.pendingStepIndex
    /\ timers' = s.timers

RECURSIVE firstMatch(_, _)
\* The first rule in sorted order whose condition is true, as a set.
firstMatch(data, navs) ==
    IF navs = <<>> THEN {}
    ELSE IF evaluateCondition(data, Head(navs).condition) THEN {Head(navs)}
    ELSE firstMatch(data, Tail(navs))

\* The auto-navigate useEffect, run after a render in which one of its
\* dependencies changed (s is the state of that render).
autoNavigateEffect(f, s) ==
    IF \/ s.isSubmitting \/ s.submitted \/ s.isNavigating \/ s.isTransitioning
    THEN s
    ELSE LET step  == CurrentStep(f, s.currentStepIndex)
             match == firstMatch(s.formData, sortedNavigation(step))
         IN IF match = {} THEN s
            ELSE LET nav == CHOOSE m \in match : TRUE
                 IN [s EXCEPT !.isNavigating = TRUE,
                              !.timers = Append(@, AutoNavTimer(nav.target,
                                                                s.currentStepIndex,
                                                                s.isTransitioning))]

\* The dependency list of the effect: formData is a fresh object after every
\* setFormData, the others are compared by value.
depsChanged(old, new, dataSet) ==
    \/ dataSet
    \/ old.currentStepIndex # new.currentStepIndex
    \/ old.isSubmitting # new.isSubmitting
    \/ old.submitted # new.submitted
    \/ old.isTransitioning # new.isTransitioning

\* The render after a handler or callback ran, with the effect when due.
afterRender(f, old, new, dataSet) ==
    IF depsChanged(old, new, dataSet) THEN autoNavigateEffect(f, new) ELSE new

\* transitionToStep as seen from a closure whose render had
\* isTransitioning = closureTransitioning.
transitionToStep(s, newIndex, closureTransitioning) ==
    IF closureTransitioning THEN s
    ELSE [s EXCEPT !.isTransitioning = TRUE,
                   !.pendingStepIndex = {newIndex},
                   !.timers = Append(@, FadeOutTimer(newIndex))]

\* handleSubmit up to its await: the rest runs when the submit timer fires.
handleSubmit(s) ==
    [s EXCEPT !.isSubmitting = TRUE, !.timers = Append(@, SubmitTimer)]

\* (handleContinueNoAbort: the return after a failed validation left out.)
handleContinueNoAbort(f, s) ==
    IF s.isTransitioning THEN s
    ELSE LET step      == CurrentStep(f, s.currentStepIndex)
             matched   == conditionalNavMatched(s.formData, step)
             validates == ~matched /\ step.validateOnContinue
             newErrors == validateStep(s.formData, step)
             s1        == IF validates THEN [s EXCEPT !.errors = newErrors] ELSE s
             nextIndex == getNextStepIndex(f, s.formData, s.currentStepIndex)
         IN IF nextIndex = -1 \/ nextIndex >= NumSteps(f) THEN handleSubmit(s1)
            ELSE transitionToStep([s1 EXCEPT !.isNavigating = TRUE], nextIndex,
                                  s.isTransitioning)

\* (handleContinueAlwaysValidates: the !conditionalNavMatched test left out.)
handleContinueAlwaysValidates(f, s) ==
    IF s.isTransitioning THEN s
    ELSE LET step      == CurrentStep(f, s.currentStepIndex)
             validates == step.validateOnContinue
             newErrors == validateStep(s.formData, step)
             s1        == IF validates THEN [s EXCEPT !.errors = newErrors] ELSE s
             nextIndex == getNextStepIndex(f, s.formData, s.currentStepIndex)
         IN IF validates /\ DOMAIN newErrors # {} THEN s1
            ELSE IF nextIndex = -1 \/ nextIndex >= NumSteps(f) THEN handleSubmit(s1)
            ELSE transitionToStep([s1 EXCEPT !.isNavigating = TRUE], nextIndex,
                                  s.isTransitioning)

\* handleContinue, from the Continue button and from Enter.
handleContinue(f, s) ==
    IF s.isTransitioning THEN s
    ELSE LET step      == CurrentStep(f, s.currentStepIndex)
             matched   == conditionalNavMatched(s.formData, step)
             validates == ~matched /\ step.validateOnContinue
             newErrors == validateStep(s.formData, step)
             s1        == IF validates THEN [s EXCEPT !.errors = newErrors] ELSE s
             nextIndex == getNextStepIndex(f, s.formData, s.currentStepIndex)
         IN IF validates /\ DOMAIN newErrors # {} THEN s1
            ELSE IF nextIndex = -1 \/ nextIndex >= NumSteps(f) THEN handleSubmit(s1)
            ELSE transitionToStep([s1 EXCEPT !.isNavigating = TRUE], nextIndex,
                                  s.isTransitioning)

Max(a, b) == IF a >= b THEN a ELSE b

\* (handleBackToPrevious: defaultPrevStep left out.)
handleBackToPrevious(f, s) ==
    IF s.isTransitioning THEN s
    ELSE transitionToStep([s EXCEPT !.isNavigating = TRUE],
                          Max(0, s.currentStepIndex - 1), s.isTransitioning)

handleBack(f, s) ==
    IF s.isTransitioning THEN s
    ELSE LET step == CurrentStep(f, s.currentStepIndex)
             s1   == [s EXCEPT !.isNavigating = TRUE]
         IN IF step.defaultPrevStep # "" /\ findIndex(f, step.defaultPrevStep) # -1
            THEN transitionToStep(s1, findIndex(f, step.defaultPrevStep), s.isTransitioning)
            ELSE transitionToStep(s1, Max(0, s.currentStepIndex - 1), s.isTransitioning)

\* value !== '' && value !== null && value !== undefined &&
\*   !(Array.isArray(value) && value.length === 0)
hasValidValue(value) ==
    /\ ~StrictEq(value, EmptyStr)
    /\ value.t \notin {"null", "undefined"}
    /\ ~(IsArray(value) /\ Len(value.a) = 0)

\* handleInputChange: the scheduled callback closes over the render in which
\* the change was made, so over the Answer Map before this change.
\* (handleInputChangeClearsErrors: the whole Error Map dropped on a change.)
handleInputChangeClearsErrors(f, s, question, value) ==
    LET key  == QuestionKey(question)
        step == CurrentStep(f, s.currentStepIndex)
        s1   == [s EXCEPT !.formData = ObjSet(@, key, value),
                          !.errors = EmptyObj]
    IN IF /\ step.autoAdvance /\ Len(step.questions) = 1
          /\ hasValidValue(value) /\ ~s.isNavigating /\ ~s.isTransitioning
       THEN [s1 EXCEPT !.isNavigating = TRUE,
                       !.timers = Append(@, AutoAdvanceTimer(s.currentStepIndex,
                                                             s.formData,
                                                             s.isTransitioning,
                                                             s1.formData))]
       ELSE s1

handleInputChange(f, s, question, value) ==
    LET key  == QuestionKey(question)
        step == CurrentStep(f, s.currentStepIndex)
        s1   == [s EXCEPT !.formData = ObjSet(@, key, value),
                          !.errors = IF key \in DOMAIN @ THEN ObjDelete(@, key) ELSE @]
    IN IF /\ step.autoAdvance /\ Len(step.questions) = 1
          /\ hasValidValue(value) /\ ~s.isNavigating /\ ~s.isTransitioning
       THEN [s1 EXCEPT !.isNavigating = TRUE,
                       !.timers = Append(@, AutoAdvanceTimer(s.currentStepIndex,
                                                             s.formData,
                                                             s.isTransitioning,
                                                             s1.formData))]
       ELSE s1

resetPreview(s) ==
    [s EXCEPT !.currentStepIndex = 0, !.formData = EmptyObj,
              !.errors = EmptyObj, !.submitted = FALSE]

\* The callbacks of the timers.
fadeOutCallback(s, t) ==
    [s EXCEPT !.currentStepIndex = t.newIndex,
              !.pendingStepIndex = {},
              !.timers = Append(@, FadeInTimer)]

fadeInCallback(s, t) ==
    [s EXCEPT !.isTransitioning = FALSE, !.isNavigating = FALSE]

autoNavCallback(f, s, t) ==
    IF t.target.type = "submit" THEN handleSubmit(s)
    ELSE IF t.target.type = "specific" /\ t.target.stepId # ""
    THEN IF findIndex(f, t.target.stepId) # -1
         THEN transitionToStep(s, findIndex(f, t.target.stepId), t.closureTransitioning)
         ELSE s
    ELSE IF t.target.type = "next"
    THEN transitionToStep(s, t.idx + 1, t.closureTransitioning)
    ELSE s

autoAdvanceCallback(f, s, t) ==
    LET nextIndex == getNextStepIndex(f, t.data, t.idx)
    IN IF nextIndex = -1 \/ nextIndex >= NumSteps(f) THEN handleSubmit(s)
       ELSE transitionToStep(s, nextIndex, t.closureTransitioning)

\* (submitCallbackStillSubmitting: setIsSubmitting(false) left out.)
submitCallbackStillSubmitting(s, t) == [s EXCEPT !.submitted = TRUE]

\* The second half of handleSubmit, after the awaited delay.
submitCallback(s, t) == [s EXCEPT !.submitted = TRUE, !.isSubmitting = FALSE]

timerCallback(f, s, t) ==
    CASE t.kind = "fadeOut"     -> fadeOutCallback(s, t)
      [] t.kind = "fadeIn"      -> fadeInCallback(s, t)
      [] t.kind = "autoNav"     -> autoNavCallback(f, s, t)
      [] t.kind = "autoAdvance" -> autoAdvanceCallback(f, s, t)
      [] OTHER                  -> submitCallback(s, t)

RemoveAt(seq, i) == SubSeq(seq, 1, i - 1) \o SubSeq(seq, i + 1, Len(seq))

\* A due callback runs once every earlier-scheduled callback of the same
\* delay has run; callbacks of different delays that are due in the same 150 ms
\* may run in either order.
CanFire(i) ==
    /\ timers[i].rem = 0
    /\ \A j \in 1..(i - 1) : ~(timers[j].rem = 0 /\ timers[j].ms = timers[i].ms)

\* What Reset found pending (history only).
PendingAtReset(s) ==
    IF s.timers = <<>> THEN "none"
    ELSE IF /\ \A i \in 1..Len(s.timers) : s.timers[i].kind = "autoAdvance"
            /\ ~s.isSubmitting /\ ~s.isTransitioning
    THEN "autoAdvance"
    ELSE IF /\ \A i \in 1..Len(s.timers) : s.timers[i].kind = "submit"
            /\ s.isSubmitting /\ ~s.isTransitioning
    THEN "submitting"
    ELSE "other"

\* Nothing awaited.
NoAwait == [kind |-> "none", index |-> 0]

\* Where the rules of step idx point on the Answer Map data: the target of
\* the first true rule in priority order, when the preview can resolve it.
AwaitedTarget(f, data, idx) ==
    LET match == firstMatch(data, sortedNavigation(CurrentStep(f, idx)))
    IN IF match = {} THEN NoAwait
       ELSE LET target == (CHOOSE m \in match : TRUE).target
            IN CASE target.type = "submit" -> [kind |-> "submit", index |-> 0]
                 [] target.type = "next"   -> [kind |-> "index", index |-> idx + 1]
                 [] target.type = "specific" /\ findIndex(f, target.stepId) # -1 ->
                        [kind |-> "index", index |-> findIndex(f, target.stepId)]
                 [] OTHER -> NoAwait

\* The callback t has taken the runtime from state old to state new: what is
\* still awaited (history only).
StillAwaited(old, new, t) ==
    IF \/ /\ awaited.kind = "index"
          /\ t.kind = "fadeOut"
          /\ t.newIndex = awaited.index
       \/ /\ awaited.kind = "submit"
          /\ t.kind \in {"autoNav", "autoAdvance"}
          /\ Len(new.timers) = Len(old.timers) + 1
          /\ new.timers[Len(new.timers)].kind = "submit"
    THEN NoAwait
    ELSE awaited

InitialState ==
    [currentStepIndex |-> 0, formData |-> EmptyObj, errors |-> EmptyObj,
     isSubmitting |-> FALSE, submitted |-> FALSE, isTransitioning |-> FALSE,
     isNavigating |-> FALSE, pendingStepIndex |-> {}, timers |-> <<>>]

\* The state after the first render and its effect.
Mounted(f) ==
    /\ form = f
    /\ LET s == autoNavigateEffect(f, InitialState)
       IN /\ currentStepIndex = s.currentStepIndex
          /\ formData = s.formData
          /\ errors = s.errors
          /\ isSubmitting = s.isSubmitting
          /\ submitted = s.submitted
          /\ isTransitioning = s.isTransitioning
          /\ isNavigating = s.isNavigating
          /\ pendingStepIndex = s.pendingStepIndex
          /\ timers = s.timers
    /\ lastEvent = "mount"
    /\ sinceReset = "none"
    /\ awaited = NoAwait
    /\ ret = NoResult

Init == \E f \in RuntimeForms : Mounted(f)

\* The runtime on one form.
InitSequential == Mounted(SequentialForm)

InitConditional == Mounted(ConditionalForm)

InitOverride == Mounted(OverrideForm)

InitAdvance == Mounted(AdvanceForm)

InitBack == Mounted(BackForm)

InitSubmit == Mounted(SubmitForm)

\* The questions of the current step that are on screen.
ShownQuestions ==
    LET step == CurrentStep(form, currentStepIndex)
    IN {step.questions[i] : i \in {j \in 1..Len(step.questions) :
            shouldShowQuestion(formData, step.questions[j])}}

\* The user changes an answer (the form is on screen until it is submitted).
\* A change event carries a value other than the one shown; a rating star
\* is a button and reports every click.
InputChange ==
    /\ ~submitted
    /\ Len(timers) < MaxTimers
    /\ \E q \in ShownQuestions : \E v \in InputValues(q) :
          /\ q.type = "rating" \/ v # Displayed(q, formData)
          /\ Commit(afterRender(form, State, handleInputChange(form, State, q, v), TRUE))
    /\ lastEvent' = "input"
    /\ sinceReset' = "none"
    /\ awaited' = IF isSubmitting \/ submitted \/ isTransitioning THEN NoAwait
                  ELSE AwaitedTarget(form, formData', currentStepIndex)
    /\ UNCHANGED <<form, ret>>

\* The Continue button: rendered with the step, disabled while submitting.
ContinueClick ==
    /\ ~submitted
    /\ CurrentStep(form, currentStepIndex).continueButton.enabled
    /\ ~isSubmitting
    /\ Len(timers) < MaxTimers
    /\ Commit(afterRender(form, State, handleContinue(form, State), FALSE))
    /\ lastEvent' = IF isTransitioning THEN "continueIgnored" ELSE "continue"
    /\ sinceReset' = "none"
    /\ awaited' = NoAwait
    /\ UNCHANGED <<form, ret>>

\* handleKeyDown: Enter in a single-line control of a step with enterKeyAdvance.
EnterKey ==
    /\ ~submitted
    /\ CurrentStep(form, currentStepIndex).enterKeyAdvance
    /\ \E q \in ShownQuestions : q.type \in KeyDownTypes
    /\ Len(timers) < MaxTimers
    /\ Commit(afterRender(form, State, handleContinue(form, State), FALSE))
    /\ lastEvent' = IF isTransitioning THEN "enterIgnored" ELSE "enter"
    /\ sinceReset' = "none"
    /\ awaited' = NoAwait
    /\ UNCHANGED <<form, ret>>

\* The Back button: rendered when enabled and not on the first step.
BackClick ==
    /\ ~submitted
    /\ CurrentStep(form, currentStepIndex).backButton.enabled
    /\ currentStepIndex # 0
    /\ Len(timers) < MaxTimers
    /\ Commit(afterRender(form, State, handleBack(form, State), FALSE))
    /\ lastEvent' = "back"
    /\ sinceReset' = "none"
    /\ awaited' = NoAwait
    /\ UNCHANGED <<form, ret>>

\* The Reset button of the header (Start Over once submitted).
Reset ==
    /\ Len(timers) < MaxTimers
    /\ LET s == afterRender(form, State, resetPreview(State), TRUE)
       IN Commit(s) /\ sinceReset' = PendingAtReset(s)
    /\ lastEvent' = "reset"
    /\ awaited' = NoAwait
    /\ UNCHANGED <<form, ret>>

\* 150 ms pass: only when no callback is due.
Tick ==
    /\ timers # <<>>
    /\ \A i \in 1..Len(timers) : timers[i].rem > 0
    /\ timers' = [i \in 1..Len(timers) |-> [timers[i] EXCEPT !.rem = @ - 1]]
    /\ lastEvent' = "timer"
    /\ UNCHANGED <<form, currentStepIndex, formData, errors, isSubmitting, submitted,
                   isTransitioning, isNavigating, pendingStepIndex, sinceReset,
                   awaited, ret>>

\* A due callback runs. (The code lets the step index grow without limit
\* once it is past the last step; the model stops at MaxIndex.)
Fire ==
    \E i \in 1..Len(timers) :
        /\ CanFire(i)
        /\ timers[i].kind = "fadeOut" => timers[i].newIndex <= MaxIndex
        /\ \E s0 \in {[State EXCEPT !.timers = RemoveAt(timers, i)]} :
           \E s1 \in {timerCallback(form, s0, timers[i])} :
              /\ \E s2 \in {afterRender(form, s0, s1, FALSE)} : Commit(s2)
              /\ awaited' = StillAwaited(s0, s1, timers[i])
        /\ lastEvent' = "timer"
        /\ UNCHANGED <<form, sinceReset, ret>>

Next == InputChange \/ ContinueClick \/ EnterKey \/ BackClick \/ Reset \/ Tick \/ Fire

Spec == Init /\ [][Next]_vars

SpecSequential == InitSequential /\ [][Next]_vars

SpecConditional == InitConditional /\ [][Next]_vars

SpecOverride == InitOverride /\ [][Next]_vars

SpecAdvance == InitAdvance /\ [][Next]_vars

SpecBack == InitBack /\ [][Next]_vars

\* Timers fire: time passes while no callback is due, and a due callback
\* runs.
SpecSubmit == InitSubmit /\ [][Next]_vars /\ WF_vars(Tick \/ Fire)

(***************************************************************************)
(* Claims on the step runtime                                              *)
(***************************************************************************)
\* The transitions in flight: each is one pending fade-out callback or the
\* pending fade-in callback that follows it.
TransitionsInFlight ==
    Cardinality({i \in 1..Len(timers) : timers[i].kind \in {"fadeOut", "fadeIn"}})

\* C1: at most one step transition is in flight at any time - no call of
\* transitionToStep, also not one from a timer scheduled before the
\* transition started, starts a second transition while one is in flight.
C1_OneTransitionInFlight == TransitionsInFlight <= 1

\* C2: after a Reset pressed while only an auto-advance delay was pending,
\* and with no user input since, the step index stays 0 whatever timers fire.
C2_ResetCancelsAutoAdvance == sinceReset = "autoAdvance" => currentStepIndex = 0

\* C3: after a Reset pressed while a simulated submission was in progress,
\* and with no user input since, the runtime stays at step 0 with empty
\* Answer and Error Maps and Submitted cleared, also once the submit delay
\* has elapsed.
C3_ResetCancelsSubmission ==
    sinceReset = "submitting" =>
        /\ currentStepIndex = 0
        /\ formData = EmptyObj
        /\ errors = EmptyObj
        /\ ~submitted

\* Continue was requested by the step just taken (button or Enter).
ContinueRequested ==
    lastEvent' \in {"continue", "enter", "continueIgnored", "enterIgnored"}

\* The step on screen.
Cur == CurrentStep(form, currentStepIndex)

\* No step of the form has a conditional rule or a defaultNextStep.
PlainForm ==
    \A i \in 1..NumSteps(form) :
        form.steps[i].conditionalNavigation = <<>> /\ form.steps[i].defaultNextStep = ""

\* Validation is disabled for the step on screen, or it passes.
ValidationPasses ==
    ~Cur.validateOnContinue \/ DOMAIN validateStep(formData, Cur) = {}

\* The step just taken started a transition to index n and nothing else.
StartedTransitionTo(n) ==
    /\ isTransitioning'
    /\ pendingStepIndex' = {n}
    /\ timers' = Append(timers, FadeOutTimer(n))
    /\ UNCHANGED <<currentStepIndex, formData, isSubmitting, submitted>>

\* The step just taken started a submission and nothing else.
StartedSubmission ==
    /\ isSubmitting'
    /\ timers' = Append(timers, SubmitTimer)
    /\ UNCHANGED <<currentStepIndex, formData, submitted, isTransitioning,
                   pendingStepIndex, isNavigating>>

\* The step just taken went where Continue goes from index i of an n-step
\* form in list order: to i + 1, or to submission from the last step.
WentOnInListOrder ==
    IF currentStepIndex < NumSteps(form) - 1
    THEN StartedTransitionTo(currentStepIndex + 1)
    ELSE StartedSubmission

\* C5 as stated: in a form without conditional rules and defaultNextStep,
\* every Continue (validation passing or disabled) from index i < n-1 leads
\* to step i+1, and from index n-1 to submission.
C5_ContinueInListOrder ==
    [][(ContinueRequested /\ PlainForm /\ ValidationPasses) => WentOnInListOrder]_vars

\* C5 amended: the same for every Continue requested while no transition is
\* in flight (a Continue during a transition is ignored).
C5_ContinueInListOrderWhenIdle ==
    [][(ContinueRequested /\ PlainForm /\ ValidationPasses /\ ~isTransitioning)
          => WentOnInListOrder]_vars

\* C5 witness: Continue has just started the transition from the middle
\* step to the last one.
C5_Witness ==
    /\ form = SequentialForm
    /\ lastEvent = "continue"
    /\ currentStepIndex = 1
    /\ pendingStepIndex = {2}
    /\ isTransitioning

\* The step just taken set the Error Map to the validator's result for the
\* step on screen and did nothing else.
AbortedWithErrors ==
    /\ errors' = validateStep(formData, Cur)
    /\ UNCHANGED <<currentStepIndex, formData, isSubmitting, submitted, isTransitioning,
                   isNavigating, pendingStepIndex, timers>>

\* Continue on a step with validateOnContinue, no true rule and a failing
\* validation.
FailingContinue ==
    /\ ContinueRequested
    /\ Cur.validateOnContinue
    /\ ~conditionalNavMatched(formData, Cur)
    /\ DOMAIN validateStep(formData, Cur) # {}

\* C8 as stated: every such Continue sets the Error Map to the validator's
\* result and starts nothing.
C8_FailedValidationAborts == [][FailingContinue => AbortedWithErrors]_vars

\* C8 amended: every such Continue requested while no transition is in flight
\* sets the Error Map to the validator's result and starts nothing.
C8_FailedValidationAbortsWhenIdle ==
    [][(FailingContinue /\ ~isTransitioning) => AbortedWithErrors]_vars

\* C8 witness: Continue has just been refused on a step whose required
\* question is unanswered, and the Error Map shows it.
C8_Witness ==
    /\ lastEvent \in {"continue", "enter"}
    /\ ~isTransitioning /\ ~isSubmitting /\ timers = <<>>
    /\ Cur.validateOnContinue
    /\ ~conditionalNavMatched(formData, Cur)
    /\ errors # EmptyObj
    /\ errors = validateStep(formData, Cur)

\* The step just taken went where the resolver says, without validating.
WentToResolverResult ==
    LET nextIndex == getNextStepIndex(form, formData, currentStepIndex)
    IN /\ errors' = errors
       /\ IF nextIndex = -1 \/ nextIndex >= NumSteps(form)
          THEN StartedSubmission
          ELSE StartedTransitionTo(nextIndex)

\* C9 as stated: every Continue requested while some conditional rule of the
\* step is true leaves the Error Map alone and goes to the resolver's result.
C9_MatchedRuleSkipsValidation ==
    [][(ContinueRequested /\ conditionalNavMatched(formData, Cur))
          => WentToResolverResult]_vars

\* C9 amended: the same for every Continue requested while no transition is
\* in flight.
C9_MatchedRuleSkipsValidationWhenIdle ==
    [][(ContinueRequested /\ conditionalNavMatched(formData, Cur) /\ ~isTransitioning)
          => WentToResolverResult]_vars

\* C9 witness: Continue has just started a transition on a step whose
\* required question is unanswered (the validator would report it) while a
\* rule of the step is true, and no error was recorded.
C9_Witness ==
    /\ lastEvent = "continue"
    /\ isTransitioning
    /\ pendingStepIndex # {}
    /\ Cur.validateOnContinue
    /\ conditionalNavMatched(formData, Cur)
    /\ DOMAIN validateStep(formData, Cur) # {}
    /\ errors = EmptyObj

\* The step just taken changed nothing of the runtime.
NoEffect ==
    UNCHANGED <<currentStepIndex, formData, errors, isSubmitting, submitted,
                isTransitioning, isNavigating, pendingStepIndex, timers>>

\* C11: a Continue requested (button or Enter) while the runtime is
\* submitting has no effect: no validation, no transition, no second
\* submission.
C11_ContinueIgnoredWhileSubmitting ==
    [][(ContinueRequested /\ isSubmitting) => NoEffect]_vars

\* The step just taken set Submitted by running a due submit callback.
SubmittedByCallback ==
    (submitted' /\ ~submitted) =>
        \E i \in 1..Len(timers) : CanFire(i) /\ timers[i].kind = "submit"

\* The callback the step just taken scheduled, as a set: a handler appends
\* one, a callback that ran is removed and may have appended one.
Scheduled ==
    IF \/ Len(timers') > Len(timers)
       \/ /\ Len(timers') = Len(timers)
          /\ timers' # timers
          /\ \E i \in 1..Len(timers) : CanFire(i)
    THEN {timers'[Len(timers')]}
    ELSE {}

\* Every submit callback the step just taken scheduled came with Submitting
\* set.
SubmittingWithCallback ==
    \A t \in Scheduled : t.kind = "submit" => isSubmitting'

\* C12: once a submission is in progress, with timers firing and unless the
\* user resets, the runtime reaches Submitted with Submitting cleared;
\* Submitted is only set by the callback of a submission, which was
\* scheduled with Submitting set.
C12_SubmissionCompletes ==
    /\ isSubmitting ~> ((submitted /\ ~isSubmitting) \/ lastEvent = "reset")
    /\ [][SubmittedByCallback /\ SubmittingWithCallback]_vars

\* C12 witness: a submission has just completed.
C12_Witness ==
    /\ submitted /\ ~isSubmitting
    /\ lastEvent = "timer"
    /\ timers = <<>>
    /\ sinceReset = "none"

\* The five modes of ProgressConfig.
ProgressModes == {"linear", "step_based", "weighted", "exponential", "question_based"}

\* A progress value is a number between 0 and 100.
InRange(r) ==
    /\ r.den # 0
    /\ IF r.den > 0 THEN 0 <= r.num /\ r.num <= r.den
                    ELSE r.den <= r.num /\ r.num <= 0

\* The form with its progress bar in the given mode, nothing else configured.
InMode(f, mode) == [f EXCEPT !.progressConfig = ProgressConfig(mode, EmptyObj, 0)]

\* C13: in every reachable state of the runtime the progress computed in each
\* of the five modes is a number between 0 and 100.
C13_ProgressInRange ==
    \A mode \in ProgressModes :
        InRange(progress(InMode(form, mode), currentStepIndex, formData))

\* C16: once the callbacks that followed an answer change have all run, with
\* no other user event since, the runtime has moved to the target of the
\* highest-priority rule that was true on the updated Answer Map.
C16_AutoNavigationReachesTarget == timers = <<>> => awaited = NoAwait

\* The number of timers of the given kind in a timer list.
CountKind(list, kind) == Cardinality({i \in 1..Len(list) : list[i].kind = kind})

\* An auto-navigation or auto-advance delay or a transition is pending.
NavigationPending ==
    \E i \in 1..Len(timers) : timers[i].kind \in {"autoNav", "autoAdvance", "fadeOut", "fadeIn"}

\* Not '', null, undefined or an empty array.
ValidLooking(value) ==
    /\ value # EmptyStr
    /\ value # Null
    /\ value # Undefined
    /\ value # Arr(<<>>)

\* The answer change just made calls for an auto-advance: the step has
\* autoAdvance and one question, whose new answer is valid-looking, and
\* nothing is pending.
ShouldAutoAdvance ==
    /\ Cur.autoAdvance
    /\ Len(Cur.questions) = 1
    /\ ValidLooking(Lookup(formData', QuestionKey(Cur.questions[1])))
    /\ ~NavigationPending

\* C17: an answer change schedules exactly one auto-advance when the step
\* has autoAdvance and exactly one question, the new value is valid-looking
\* and no navigation or transition is pending, and none in every other case.
C17_AutoAdvanceScheduling ==
    [][lastEvent' = "input" =>
          CountKind(timers', "autoAdvance") - CountKind(timers, "autoAdvance")
              = (IF ShouldAutoAdvance THEN 1 ELSE 0)]_vars

\* The step runs the callback of the auto-advance timers[i].
AutoAdvanceFired(i) ==
    /\ lastEvent' = "timer"
    /\ CanFire(i)
    /\ timers[i].kind = "autoAdvance"
    /\ Len(timers') >= Len(timers)
    /\ SubSeq(timers', 1, Len(timers) - 1) = RemoveAt(timers, i)

\* What the callback of the auto-advance t has started is the resolver's
\* result for the step of the answer on the Answer Map with that answer.
StartedResolved(t) ==
    LET nextIndex == getNextStepIndex(form, t.committed, t.idx)
        started   == timers'[Len(timers)]
    IN IF nextIndex = -1 \/ nextIndex >= NumSteps(form)
       THEN started.kind = "submit"
       ELSE started.kind = "fadeOut" /\ started.newIndex = nextIndex

\* C18: when an auto-advance fires, it starts the transition to (or the
\* submission given by) the Navigation Resolver's result for the step on which
\* the answer was given, on the Answer Map that contains that answer.
C18_AutoAdvanceTarget ==
    [][\A i \in 1..Len(timers) : AutoAdvanceFired(i) => StartedResolved(timers[i])]_vars

\* The phases of transitions that are pending: a fade-out before the step
\* index is set, a fade-in after it.
PendingPhases == {i \in 1..Len(timers) : timers[i].kind \in {"fadeOut", "fadeIn"}}

\* C19: a transition runs fade-out, step index, fade-in in this order with
\* transitioning set from its start until the fade-in has ended, one
\* transition at a time: transitioning is set exactly while one phase of one
\* transition is pending.
C19_TransitionPhases == isTransitioning <=> Cardinality(PendingPhases) = 1

\* C20: the navigating guard is held only while a delay or a transition is
\* pending: when no timer is pending and no submission is in progress,
\* isNavigating is false.
C20_NavigatingOnlyWhilePending == (timers = <<>> /\ ~isSubmitting) => ~isNavigating

\* C21: the step index always names a step of the form.
C21_IndexInRange == currentStepIndex \in 0..(NumSteps(form) - 1)

\* Where Back leads from the current step.
BackTarget ==
    IF Cur.defaultPrevStep # "" /\ findIndex(form, Cur.defaultPrevStep) # -1
    THEN findIndex(form, Cur.defaultPrevStep)
    ELSE Max(0, currentStepIndex - 1)

\* C22: Back pressed while no transition is in flight starts the transition
\* to the step named by defaultPrevStep when it exists and to
\* max(0, i - 1) otherwise, and changes neither the Answer Map nor the Error
\* Map nor the submission flags.
C22_BackTarget ==
    [][(lastEvent' = "back" /\ ~isTransitioning)
          => (StartedTransitionTo(BackTarget) /\ UNCHANGED errors)]_vars

\* C22 witness: Back on s3 of BackForm has started the transition to s1 with
\* the required q3 unanswered.
C22_Witness ==
    /\ form = BackForm
    /\ lastEvent = "back"
    /\ currentStepIndex = 2
    /\ pendingStepIndex = {0}
    /\ "q3" \notin DOMAIN formData
    /\ errors = EmptyObj

InitFrame == Mounted(FrameForm)

SpecFrame == InitFrame /\ [][Next]_vars

\* The step just taken stored value under key and dropped the error of key,
\* and left every other answer and error as it was.
StoredAnswer(key, value) ==
    /\ DOMAIN formData' = DOMAIN formData \cup {key}
    /\ formData'[key] = value
    /\ \A k \in DOMAIN formData \ {key} : formData'[k] = formData[k]
    /\ DOMAIN errors' = DOMAIN errors \ {key}
    /\ \A k \in DOMAIN errors' : errors'[k] = errors[k]

\* C26: an input change stores the value under the question's key (fieldName,
\* else id), removes the error of that key and leaves every other answer and
\* error unchanged; only an input change and Reset change the Answer Map.
C26_InputChangeFrame ==
    [][/\ lastEvent' = "input"
           => \E q \in ShownQuestions : \E v \in InputValues(q) :
                 StoredAnswer(IF q.fieldName # "" THEN q.fieldName ELSE q.id, v)
       /\ formData' # formData => lastEvent' \in {"input", "reset"}]_vars

\* C26 witness: after a failed validation with errors for name and q2 the
\* user typed into q1; the answer is stored under name, the error of name is
\* gone and the error of q2 is still there.
C26_Witness ==
    /\ form = FrameForm
    /\ lastEvent = "input"
    /\ DOMAIN formData = {"name"}
    /\ formData["name"] = Str(Yes)
    /\ errors = ObjSet(EmptyObj, "q2", Msg("This field is required", 0))

(***************************************************************************)
(* Direct calls of the resolver, the evaluator and the validator           *)
(***************************************************************************)
\* The runtime as mounted, on form f with Answer Map data at step index idx.
Called(f, data, idx) ==
    /\ form = f
    /\ currentStepIndex = idx
    /\ formData = data
    /\ errors = EmptyObj
    /\ isSubmitting = FALSE
    /\ submitted = FALSE
    /\ isTransitioning = FALSE
    /\ isNavigating = FALSE
    /\ pendingStepIndex = {}
    /\ timers = <<>>
    /\ lastEvent = "mount"
    /\ sinceReset = "none"
    /\ awaited = NoAwait
    /\ ret = NoResult

Unchanged == UNCHANGED <<form, currentStepIndex, formData, isSubmitting, submitted,
                         isTransitioning, isNavigating, pendingStepIndex, timers,
                         lastEvent, sinceReset, awaited>>

\* Sequences over S of length at most n.
SeqUpTo(S, n) == UNION {[1..k -> S] : k \in 0..n}

\* --- resolver ---
MaxRules    == 2
MaxPriority == 2

CondAlways == Condition("AND", <<>>)
CondYes    == Condition("AND", <<Rule("q1", "equals", Yes)>>)

ResolverTargets ==
    {Target("next", ""), Target("submit", ""), Target("specific", "s3"),
     Target("specific", "zz"), Target("previous", ""), Target("url", "")}

ResolverNavs ==
    {Nav(p, c, tg) : p \in 1..MaxPriority, c \in {CondAlways, CondYes},
                     tg \in ResolverTargets}

\* Three steps; the first carries the rules and the default under test.
ResolverForm(navs, default) ==
    Form(<<[Step("s1", <<Question("q1", "text", FALSE)>>, navs, FALSE, FALSE)
               EXCEPT !.defaultNextStep = default],
           Step("s2", <<>>, <<>>, FALSE, FALSE),
           Step("s3", <<>>, <<>>, FALSE, FALSE)>>)

InitResolver ==
    \E navs \in SeqUpTo(ResolverNavs, MaxRules) :
    \E default \in {"", "s3", "zz"} :
    \E data \in {EmptyObj, ObjSet(EmptyObj, "q1", Str(Yes))} :
        Called(ResolverForm(navs, default), data, 0)

CallGetNextStepIndex ==
    /\ ret = NoResult
    /\ ret' = [fn |-> "getNextStepIndex",
               val |-> getNextStepIndex(form, formData, currentStepIndex)]
    /\ UNCHANGED errors
    /\ Unchanged

SpecResolver == InitResolver /\ [][CallGetNextStepIndex]_vars

\* --- evaluator ---
MaxConditionRules == 2

EvalOperators ==
    {"equals", "not_equals", "contains", "not_contains", "is_empty", "is_not_empty",
     "greater_than", "less_than", "starts_with", "ends_with", "unknown"}

EvalRules == {Rule("q1", op, v) : op \in EvalOperators, v \in {Yes, <<"3">>}}

EvalConditions ==
    {Condition(logic, rules) : logic \in {"AND", "OR"},
                               rules \in SeqUpTo(EvalRules, MaxConditionRules)}

\* Every kind of stored answer: absent, null, '', strings, numbers with 0,
\* booleans, arrays with the empty one.
AnswerValues ==
    {Undefined, Null, EmptyStr, Str(Yes), Str(<<"3">>), Num(0), Num(5),
     Bool(TRUE), Bool(FALSE), Arr(<<>>), Arr(<<Yes>>), Arr(<<<<"x">>, Yes>>)}

AnswerMaps ==
    {IF v = Undefined THEN EmptyObj ELSE ObjSet(EmptyObj, "q1", v) : v \in AnswerValues}

\* One step whose question q1 is shown under the condition under test.
EvalForm(condition) ==
    Form(<<Step("s1", <<[Question("q1", "text", FALSE)
                            EXCEPT !.conditionalDisplay = condition]>>,
                <<>>, FALSE, FALSE)>>)

\* The condition under test.
Probe == form.steps[1].questions[1].conditionalDisplay

InitEval ==
    \E c \in EvalConditions : \E data \in AnswerMaps : Called(EvalForm(c), data, 0)

CallEvaluateCondition ==
    /\ ret = NoResult
    /\ ret' = [fn |-> "evaluateCondition", val |-> evaluateCondition(formData, Probe)]
    /\ UNCHANGED errors
    /\ Unchanged

CallEvaluateRule ==
    /\ ret = NoResult
    /\ ret' = [fn |-> "evaluateRule", val |-> RuleResults(formData, Probe)]
    /\ UNCHANGED errors
    /\ Unchanged

NextEval == CallEvaluateCondition \/ CallEvaluateRule

SpecEval == InitEval /\ [][NextEval]_vars

\* --- evaluator, one rule ---
\* compareValue is a string: a word, two numbers, ''.
RuleCompareValues == {Yes, <<"3">>, <<"0">>, <<>>}

InitRule ==
    \E op \in EvalOperators : \E v \in RuleCompareValues : \E data \in AnswerMaps :
        Called(EvalForm(Condition("AND", <<Rule("q1", op, v)>>)), data, 0)

SpecRule == InitRule /\ [][CallEvaluateRule]_vars

\* --- validator ---
ValidatedTypes == {"text", "slider", "rating", "checkbox", "hidden", "helper_text"}

\* conditionalDisplay of the question under test: none, one on its own
\* answer, one on a question that has no answer.
ValidatorDisplays ==
    {NoCondition,
     Condition("AND", <<Rule("q1", "not_equals", Yes)>>),
     Condition("AND", <<Rule("q2", "equals", Yes)>>)}

\* One step whose only question is the question under test.
ValidatorForm(type, required, display) ==
    Form(<<Step("s1", <<[Question("q1", type, required)
                            EXCEPT !.conditionalDisplay = display]>>,
                <<>>, TRUE, FALSE)>>)

\* The answer is absent or one the question's control hands to onChange.
InitValidate ==
    \E type \in ValidatedTypes : \E required \in BOOLEAN :
    \E display \in ValidatorDisplays :
    \E v \in {Undefined} \cup InputValues(Question("q1", type, required)) :
        Called(ValidatorForm(type, required, display),
               IF v = Undefined THEN EmptyObj ELSE ObjSet(EmptyObj, "q1", v), 0)

\* validateStep() hands its newErrors to setErrors and returns whether it
\* is empty.
CallValidateStep ==
    /\ ret = NoResult
    /\ errors' = validateStep(formData, Cur)
    /\ ret' = [fn |-> "validateStep", val |-> (DOMAIN validateStep(formData, Cur) = {})]
    /\ Unchanged

SpecValidate == InitValidate /\ [][CallValidateStep]_vars

\* --- validator, questions with validation settings ---
\* The validation settings under test: each limit absent or set, the pattern
\* absent or set with or without a message of its own.
CheckedValidations ==
    {[required |-> required, minLength |-> minLength, maxLength |-> maxLength,
      hasMin |-> hasMin, min |-> IF hasMin THEN 5 ELSE 0,
      hasMax |-> hasMax, max |-> IF hasMax THEN 3 ELSE 0,
      pattern |-> p[1], patternMessage |-> p[2]] :
        required \in BOOLEAN, minLength \in {0, 3}, maxLength \in {0, 2},
        hasMin \in BOOLEAN, hasMax \in BOOLEAN,
        p \in {<<"", "">>, <<"^y", "">>, <<"^y", "Must start with y">>}}

\* The answer is absent or one the question's control hands to onChange:
\* the text of a single-line input, the number of a slider.
CheckedValues(type) ==
    IF type = "slider" THEN {Undefined, Num(0), Num(4)}
    ELSE {Undefined, EmptyStr, Str(<<"4">>), Str(<<"a", "b", "c", "d">>),
          Str(<<"y", "@", "b", ".", "c">>)}

InitChecks ==
    \E type \in {"text", "email", "phone", "slider"} :
    \E validation \in CheckedValidations :
    \E v \in CheckedValues(type) :
        Called(Form(<<Step("s1", <<[Question("q1", type, validation.required)
                                       EXCEPT !.validation = validation]>>,
                           <<>>, TRUE, FALSE)>>),
               IF v = Undefined THEN EmptyObj ELSE ObjSet(EmptyObj, "q1", v), 0)

SpecChecks == InitChecks /\ [][CallValidateStep]_vars

(***************************************************************************)
(* Claims on the resolver, the evaluator and the validator                 *)
(***************************************************************************)
\* The rules of the step the resolver was called on.
Navs == Cur.conditionalNavigation

\* A target the preview can resolve: submit, next, or specific with the id
\* of a step of the form.
Resolvable(tg) ==
    \/ tg.type \in {"submit", "next"}
    \/ tg.type = "specific" /\ \E i \in 1..NumSteps(form) : form.steps[i].id = tg.stepId

\* What a resolvable target stands for (-1 is submit).
TargetIndex(tg) ==
    CASE tg.type = "submit" -> -1
      [] tg.type = "next"   -> currentStepIndex + 1
      [] OTHER -> (CHOOSE i \in 1..NumSteps(form) : form.steps[i].id = tg.stepId) - 1

\* The rules with a true condition and a resolvable target.
Matching ==
    {i \in 1..Len(Navs) :
        evaluateCondition(formData, Navs[i].condition) /\ Resolvable(Navs[i].target)}

\* Rule i beats rule j: higher priority, or equal priority and earlier in
\* the list.
Beats(i, j) ==
    \/ Navs[i].priority > Navs[j].priority
    \/ Navs[i].priority = Navs[j].priority /\ i < j

\* C4: getNextStepIndex returns the target of the matching rule with the
\* highest priority, the first in the list among equals; no lower-priority
\* matching rule overrides it.
C4_HighestPriorityWins ==
    ret.fn = "getNextStepIndex" =>
        \A i \in Matching :
            (\A j \in Matching \ {i} : Beats(i, j)) => ret.val = TargetIndex(Navs[i].target)

\* C4 witness: two rules match, the one of lower priority comes first in the
\* list and names another target, and the resolver returned the target of
\* the one of higher priority.
C4_Witness ==
    /\ ret.fn = "getNextStepIndex"
    /\ Len(Navs) = 2
    /\ Matching = {1, 2}
    /\ Navs[1].priority < Navs[2].priority
    /\ TargetIndex(Navs[1].target) # TargetIndex(Navs[2].target)
    /\ ret.val = TargetIndex(Navs[2].target)

\* C6: with logic AND the condition is true iff every rule evaluates true
\* (true for no rules), with logic OR iff at least one does (false for no
\* rules).
C6_AndAllOrAny ==
    ret.fn = "evaluateCondition" =>
        /\ Probe.logic = "AND" =>
              (ret.val <=> \A i \in 1..Len(Probe.rules) :
                               Truthy(evaluateRule(formData, Probe.rules[i])))
        /\ Probe.logic = "OR" =>
              (ret.val <=> \E i \in 1..Len(Probe.rules) :
                               Truthy(evaluateRule(formData, Probe.rules[i])))
        /\ Probe.rules = <<>> => (ret.val <=> Probe.logic = "AND")

\* C6 witness: an AND condition of one true and one false rule was evaluated
\* false.
C6_Witness ==
    /\ ret.fn = "evaluateCondition"
    /\ Probe.logic = "AND"
    /\ Len(Probe.rules) = 2
    /\ Truthy(evaluateRule(formData, Probe.rules[1]))
    /\ ~Truthy(evaluateRule(formData, Probe.rules[2]))
    /\ ret.val = FALSE

\* C7: on every answer an is_empty rule and an is_not_empty rule on the same
\* question have opposite truth values.
C7_EmptyComplement ==
    ret.fn = "evaluateRule" =>
        \A i, j \in 1..Len(Probe.rules) :
            (/\ Probe.rules[i].operator = "is_empty"
             /\ Probe.rules[j].operator = "is_not_empty"
             /\ Probe.rules[i].questionId = Probe.rules[j].questionId)
                => (Truthy(ret.val[i]) <=> ~Truthy(ret.val[j]))

\* C7 witness: both rules were evaluated on the empty array, is_empty true
\* and is_not_empty false.
C7_Witness ==
    /\ ret.fn = "evaluateRule"
    /\ Len(Probe.rules) = 2
    /\ Probe.rules[1].operator = "is_empty"
    /\ Probe.rules[2].operator = "is_not_empty"
    /\ Lookup(formData, "q1") = Arr(<<>>)
    /\ Truthy(ret.val[1])
    /\ ~Truthy(ret.val[2])

\* Where the default navigation leads: defaultNextStep when it names a step,
\* the next index otherwise.
DefaultIndex ==
    IF \E i \in 1..NumSteps(form) : form.steps[i].id = Cur.defaultNextStep
    THEN (CHOOSE i \in 1..NumSteps(form) : form.steps[i].id = Cur.defaultNextStep) - 1
    ELSE currentStepIndex + 1

\* The rules with a true condition whose target cannot be resolved.
Unresolved ==
    {i \in 1..Len(Navs) :
        evaluateCondition(formData, Navs[i].condition) /\ ~Resolvable(Navs[i].target)}

C23_AllUnresolved ==
    /\ ret.fn = "getNextStepIndex"
    /\ Unresolved # {}
    /\ Matching = {}
    /\ Cur.defaultNextStep = "zz"
    /\ ret.val = currentStepIndex + 1

\* An answer that is missing: an empty array, or a scalar that is absent,
\* null or ''.
MissingAnswer(value) ==
    \/ IsArray(value) /\ Len(value.a) = 0
    \/ ~IsArray(value) /\ (value.t \in {"undefined", "null"} \/ value = EmptyStr)

\* The question under test of the validator and its answer.
Asked == Cur.questions[1]
Answer == Lookup(formData, QuestionKey(Asked))

\* C10: for a visible required input question validateStep records 'This
\* field is required' iff the answer is an empty array or a scalar that is
\* absent, null or ''; any number and any boolean produce no required error.
C10_RequiredIffMissing ==
    (/\ ret.fn = "validateStep"
     /\ Asked.validation.required
     /\ shouldShowQuestion(formData, Asked)
     /\ Asked.type \notin {"hidden", "helper_text"})
        => ((/\ QuestionKey(Asked) \in DOMAIN errors
             /\ errors[QuestionKey(Asked)] = Msg("This field is required", 0))
               <=> MissingAnswer(Answer))

\* The question under test is one validateStep passes over.
Skipped ==
    \/ ~shouldShowQuestion(formData, Asked)
    \/ Asked.type \in {"hidden", "helper_text"}

\* C24: validateStep records no error for a question whose conditionalDisplay
\* is false on the answers or whose type is hidden or helper_text, required
\* and unanswered or not; a step of such questions is valid.
C24_SkippedQuestionsHaveNoError ==
    (ret.fn = "validateStep" /\ Skipped)
        => (QuestionKey(Asked) \notin DOMAIN errors /\ ret.val = TRUE)

\* C24 witness: a required text question without an answer whose display
\* condition is false was validated without an error.
C24_Witness ==
    /\ ret.fn = "validateStep"
    /\ Asked.type = "text"
    /\ Asked.validation.required
    /\ Answer = Undefined
    /\ ~shouldShowQuestion(formData, Asked)
    /\ errors = EmptyObj
    /\ ret.val = TRUE

\* C24 second case reached: a required, displayed question of type hidden
\* without an answer was validated without an error.
C24_HiddenType ==
    /\ ret.fn = "validateStep"
    /\ Asked.type = "hidden"
    /\ Asked.validation.required
    /\ Answer = Undefined
    /\ shouldShowQuestion(formData, Asked)
    /\ errors = EmptyObj
    /\ ret.val = TRUE

\* The checks behind the required check in the order validateStep makes
\* them, each with whether it fails on the answer and its message.
Checks ==
    LET v == Asked.validation
        s == ToStr(Answer)
        n == ToNum(Answer)
    IN <<[fails |-> \/ Asked.type = "email" /\ ~emailRegex(s)
                    \/ Asked.type = "phone" /\ ~phoneRegex(s),
          msg   |-> IF Asked.type = "email"
                    THEN Msg("Please enter a valid email address", 0)
                    ELSE Msg("Please enter a valid phone number", 0)],
         [fails |-> v.minLength # 0 /\ Len(s) < v.minLength,
          msg   |-> Msg("Minimum ${minLength} characters required", v.minLength)],
         [fails |-> v.maxLength # 0 /\ Len(s) > v.maxLength,
          msg   |-> Msg("Maximum ${maxLength} characters allowed", v.maxLength)],
         [fails |-> v.hasMin /\ n.t = "number" /\ n.n < v.min,
          msg   |-> Msg("Minimum value is ${min}", v.min)],
         [fails |-> v.hasMax /\ n.t = "number" /\ n.n > v.max,
          msg   |-> Msg("Maximum value is ${max}", v.max)],
         [fails |-> v.pattern # "" /\ ~PatternTest(v.pattern, s),
          msg   |-> Msg(IF v.patternMessage # "" THEN v.patternMessage
                        ELSE "Invalid format", 0)]>>

\* The checks that fail; none runs on an answer that is not truthy.
Failing == IF Truthy(Answer) THEN {i \in 1..Len(Checks) : Checks[i].fails} ELSE {}

LastFailing == CHOOSE i \in Failing : \A j \in Failing : j <= i

\* C25: validateStep reports one message for the field or none: the required
\* message alone when the required check fails, otherwise the message of the
\* last failing check in the order format, minLength, maxLength, min, max,
\* pattern, and none when no check fails.
C25_LastFailingCheckReported ==
    (ret.fn = "validateStep" /\ ~Skipped) =>
        errors = IF Asked.validation.required /\ RequiredMissing(Answer)
                 THEN ObjSet(EmptyObj, QuestionKey(Asked), Msg("This field is required", 0))
                 ELSE IF Failing # {}
                 THEN ObjSet(EmptyObj, QuestionKey(Asked), Checks[LastFailing].msg)
                 ELSE EmptyObj

\* C25 witness: the answer '4' of an email question fails the format, the
\* minLength, the min and the max check and passes the pattern; the max
\* message is the one reported.
C25_Witness ==
    /\ ret.fn = "validateStep"
    /\ Asked.type = "email"
    /\ Answer = Str(<<"4">>)
    /\ Failing = {1, 2, 4, 5}
    /\ errors = ObjSet(EmptyObj, "q1", Msg("Maximum value is ${max}", 3))
    /\ ret.val = FALSE

\* C25 first case reached: a required question with settings that an empty
\* string would fail was validated with the required message alone.
C25_RequiredAlone ==
    /\ ret.fn = "validateStep"
    /\ Asked.validation.required
    /\ Asked.validation.minLength = 3
    /\ Asked.validation.pattern # ""
    /\ Answer = EmptyStr
    /\ errors = ObjSet(EmptyObj, "q1", Msg("This field is required", 0))

\* The rule under test, the answer stored for its question and what the rule
\* returned.
ProbeRule == Probe.rules[1]
Stored == Lookup(formData, ProbeRule.questionId)
RuleResult == Truthy(ret.val[1])

\* C27: a rule is evaluated on the stored answer whenever one is stored, 0
\* and false included; only an absent or null answer is evaluated as ''.
C27_StoredAnswerEvaluated ==
    ret.fn = "evaluateRule" =>
        ret.val[1] = switchOperator(IF Stored \in {Undefined, Null} THEN EmptyStr
                                    ELSE Stored, ProbeRule)

\* C28: on an array answer contains is true iff some element contains
\* compareValue and not_contains iff none does, equals is true iff
\* compareValue is an element and not_equals iff it is not; on the empty
\* array not_contains and not_equals are true, contains and equals false.
C28_ArrayNegations ==
    (ret.fn = "evaluateRule" /\ IsArray(Stored)) =>
        LET a  == Stored.a
            cv == ProbeRule.value
            op == ProbeRule.operator
        IN /\ op = "contains" => (RuleResult <=> \E i \in 1..Len(a) : Includes(a[i], cv))
           /\ op = "not_contains" => (RuleResult <=> \A i \in 1..Len(a) : ~Includes(a[i], cv))
           /\ op = "equals" => (RuleResult <=> \E i \in 1..Len(a) : a[i] = cv)
           /\ op = "not_equals" => (RuleResult <=> \A i \in 1..Len(a) : a[i] # cv)
           /\ a = <<>> => /\ op \in {"not_contains", "not_equals"} => RuleResult
                          /\ op \in {"contains", "equals"} => ~RuleResult

\* C28 witness: not_contains yes was evaluated false on the array [x, yes],
\* of which one element contains yes and one does not.
C28_Witness ==
    /\ ret.fn = "evaluateRule"
    /\ Stored = Arr(<<<<"x">>, Yes>>)
    /\ ProbeRule.operator = "not_contains"
    /\ ProbeRule.value = Yes
    /\ ~RuleResult

\* C28 empty array reached: not_contains '' was evaluated true on [].
C28_EmptyArray ==
    /\ ret.fn = "evaluateRule"
    /\ Stored = Arr(<<>>)
    /\ ProbeRule.operator = "not_contains"
    /\ ProbeRule.value = <<>>
    /\ RuleResult

\* A value that is a number: a number, or a string that spells one ('' and
\* words do not).
Numeric(v) ==
    \/ v.t = "number"
    \/ v.t = "string" /\ v.s # <<>> /\ StrToNum(v.s) # NaN

\* The answer of the rule's question as a control stores it: absent, a
\* string or a number.
StoredByControl == Stored.t \in {"undefined", "string", "number"}

\* C29: greater_than and less_than are false when the answer (the empty
\* value '' when there is none) or compareValue is not numeric, and are the
\* strict comparison of the two numbers otherwise.
C29_NumericComparison ==
    (/\ ret.fn = "evaluateRule"
     /\ StoredByControl
     /\ ProbeRule.operator \in {"greater_than", "less_than"})
        => LET answer == IF Stored = Undefined THEN EmptyStr ELSE Stored
               cv     == Str(ProbeRule.value)
           IN IF Numeric(answer) /\ Numeric(cv)
              THEN RuleResult <=> IF ProbeRule.operator = "greater_than"
                                  THEN ToNum(answer).n > ToNum(cv).n
                                  ELSE ToNum(answer).n < ToNum(cv).n
              ELSE ~RuleResult

(***************************************************************************)
(* Direct calls of the progress memo                                       *)
(***************************************************************************)
MaxSteps == 4

StepIds == <<"s1", "s2", "s3", "s4", "s5", "s6">>

QuestionIds == <<"q1", "q2", "q3", "q4", "q5", "q6">>

\* n steps of one optional text question each, with the given progress bar.
ProgressForm(n, config) ==
    [steps |-> [i \in 1..n |->
                   Step(StepIds[i], <<Question(QuestionIds[i], "text", FALSE)>>,
                        <<>>, FALSE, FALSE)],
     progressConfig |-> config]

\* stepWeights: absent, or a weight typed for the first step (0 is replaced
\* by 1 in the sum).
ProgressWeights == {EmptyObj, ObjSet(EmptyObj, "s1", 3), ObjSet(EmptyObj, "s1", 0)}

\* exponentialBase: 0 stands for a base that is not configured.
ProgressBases == {0, 1, 2, 3}

InitProgress ==
    \E n \in 0..MaxSteps : \E idx \in 0..Max(0, n - 1) :
    \E mode \in ProgressModes :
    \E weights \in ProgressWeights : \E exponentialBase \in ProgressBases :
    \E data \in {EmptyObj, ObjSet(EmptyObj, "q1", Str(Yes))} :
        Called(ProgressForm(n, ProgressConfig(mode, weights, exponentialBase)), data, idx)

\* A render evaluates the progress memo.
CallProgress ==
    /\ ret = NoResult
    /\ ret' = [fn |-> "progress", val |-> progress(form, currentStepIndex, formData)]
    /\ UNCHANGED errors
    /\ Unchanged

SpecProgress == InitProgress /\ [][CallProgress]_vars

\* The progress value r is the number num / den * 100.
Same(r, num, den) == r.den # 0 /\ den # 0 /\ r.num * den = num * r.den

\* r1 < r2, for values with positive denominators.
Less(r1, r2) == r1.num * r2.den < r2.num * r1.den

\* C14: in modes linear and step_based the progress is
\* (currentStepIndex + 1) / totalSteps * 100 for every step index and step
\* count, so the same in both; it is 25 at index 0 of 4 steps and 100 at the
\* last step.
C14_LinearAndStepBased ==
    (/\ ret.fn = "progress"
     /\ form.progressConfig.mode \in {"linear", "step_based"}
     /\ NumSteps(form) >= 1)
        => /\ Same(ret.val, currentStepIndex + 1, NumSteps(form))
           /\ (currentStepIndex = 0 /\ NumSteps(form) = 4) => Same(ret.val, 25, 100)
           /\ currentStepIndex = NumSteps(form) - 1 => Same(ret.val, 100, 100)

\* C14 witness: step_based progress was computed at index 0 of 4 steps.
C14_Witness ==
    /\ ret.fn = "progress"
    /\ form.progressConfig.mode = "step_based"
    /\ NumSteps(form) = 4
    /\ currentStepIndex = 0
    /\ ret.val = Ratio(1, 4)

\* The base the exponential mode computes with.
Base == IF form.progressConfig.exponentialBase # 0
        THEN form.progressConfig.exponentialBase ELSE 2

\* The exponential progress of a form with at least one step follows the
\* formula, grows with the step index and ends at 100.
ExponentialFormula ==
    /\ Same(ret.val, Pow(Base, currentStepIndex + 1) - 1, Pow(Base, NumSteps(form)) - 1)
    /\ currentStepIndex > 0 =>
           Less(progress(form, currentStepIndex - 1, formData), ret.val)
    /\ currentStepIndex = NumSteps(form) - 1 => Same(ret.val, 100, 100)

ExponentialCalled ==
    /\ ret.fn = "progress"
    /\ form.progressConfig.mode = "exponential"
    /\ NumSteps(form) >= 1

EntryOrOne(id) ==
    IF id \in DOMAIN form.progressConfig.stepWeights
    THEN form.progressConfig.stepWeights[id]
    ELSE 1

RECURSIVE SumEntries(_)
\* The sum of the weights of the first n steps.
SumEntries(n) == IF n = 0 THEN 0 ELSE SumEntries(n - 1) + EntryOrOne(form.steps[n].id)

\* C30: in mode weighted a step weighs its stepWeights entry when it has one,
\* 0 included, and 1 when it has none; the progress is the weight of steps
\* 0..currentStepIndex over the weight of all steps, times 100, and is 100
\* at the last step.
C30_WeightedProgress ==
    (/\ ret.fn = "progress"
     /\ form.progressConfig.mode = "weighted"
     /\ NumSteps(form) > 0)
        => /\ Same(ret.val, SumEntries(currentStepIndex + 1), SumEntries(NumSteps(form)))
           /\ currentStepIndex = NumSteps(form) - 1 => Same(ret.val, 1, 1)

=============================================================================
